---- MODULE Spec2Model ----
(***************************************************************************)
(* Model of eo-scrapers: the HTTP base client (clients/base.py), the       *)
(* Elexon and Carbon Intensity clients (clients/elexon.py,                 *)
(* clients/carbon_intensity.py), the record parsers (models/price.py,      *)
(* models/carbon.py), the Supabase writer (storage/supabase.py), the       *)
(* fetch orchestrator and the scheduled jobs (scheduler.py), the           *)
(* settlement-period utilities (utils/time.py) and the price averages      *)
(* (clients/elexon.py).                                                    *)
(*                                                                         *)
(* Dates are day numbers (timedelta(days=n) is +n).  Decimal amounts are   *)
(* integers counting 1/10000 of a pound, so 105.00 is 1050000.             *)
(***************************************************************************)
EXTENDS Integers, Sequences, FiniteSets, TLC

VARIABLES
    req,          \* the _request call in progress or last finished
    cl,           \* the client call (by-date or range fetch) last made
    fetch_logs,   \* table fetch_logs: row i has id i
    tables,       \* the four data tables, each a sequence of rows
    sv,           \* the save_* call last made on the writer
    nSaves,       \* number of save_* calls made on the writer so far
    orch,         \* the DataFetcher call in progress or last finished
    jobs,         \* the scheduler's fetch jobs running at the same time
    fn            \* the call of a utility or model function last made

vars == <<req, cl, fetch_logs, tables, sv, nSaves, orch, jobs, fn>>

\* Python's None where the other values are integers / strings.
None == -1
NoneStr == "None"

(***************************************************************************)
(* clients/base.py: BaseClient._request under the tenacity @retry wrapper  *)
(***************************************************************************)

\* stop_after_attempt(3)
MaxAttempts == 3

Methods == {"GET", "POST"}
Endpoints == {"/balancing/settlement/system-prices", "/balancing/pricing/market-index",
              "/intensity", "/generation"}

\* Status codes on both sides of the two comparisons (== 429, >= 400).
Statuses == {200, 399, 400, 428, 429, 430, 500}
\* Response bodies: JSON with a "data" field, JSON without it, not JSON.
Bodies == {"json_data", "json_nodata", "not_json"}

\* What client.request(...) does on one attempt.
Transports ==
    {[kind |-> "timeout", status |-> None, body |-> NoneStr],
     [kind |-> "network", status |-> None, body |-> NoneStr]}
    \cup {[kind |-> "response", status |-> s, body |-> b] : s \in Statuses, b \in Bodies}

\* response.json(): the decoded body, or the decode error.
JsonParses(body) == body \in {"json_data", "json_nodata"}

Returned(v) ==
    [kind |-> "return", value |-> v, exc |-> NoneStr, status_code |-> None, response |-> NoneStr]
Raised(e, code, text) ==
    [kind |-> "raise", value |-> NoneStr, exc |-> e, status_code |-> code, response |-> text]

\* A variant of the body of _request that does not single out status 429.
RequestBodyNoRateLimit(t) ==
    IF t.kind = "timeout" THEN Raised("APIError", None, NoneStr)
    ELSE IF t.kind = "network" THEN Raised("APIError", None, NoneStr)
    ELSE IF t.status >= 400 THEN Raised("APIError", t.status, t.body)
    ELSE IF JsonParses(t.body) THEN Returned(t.body)
    ELSE Raised("JSONDecodeError", None, NoneStr)

\* The body of _request for one attempt: what leaves the function.
RequestBody(t) ==
    IF t.kind = "timeout" THEN Raised("APIError", None, NoneStr)
    ELSE IF t.kind = "network" THEN Raised("APIError", None, NoneStr)
    ELSE IF t.status = 429 THEN Raised("RateLimitError", 429, t.body)
    ELSE IF t.status >= 400 THEN Raised("APIError", t.status, t.body)
    ELSE IF JsonParses(t.body) THEN Returned(t.body)
    ELSE Raised("JSONDecodeError", None, NoneStr)

\* retry_if_exception_type((httpx.TimeoutException, httpx.NetworkError)),
\* applied to what left the function.
RetryIf(outcome) ==
    outcome.kind = "raise" /\ outcome.exc \in {"TimeoutException", "NetworkError"}

\* stop_after_attempt(3)
StopAfterAttempt(attempt_number) == attempt_number >= MaxAttempts

ReqIdle ==
    [pc |-> "idle", method |-> NoneStr, endpoint |-> NoneStr, attempt_number |-> 0,
     transport |-> [kind |-> NoneStr, status |-> None, body |-> NoneStr],
     outcome |-> Returned(NoneStr)]

\* A caller invokes _request(method, endpoint).
BeginRequest(method, endpoint) ==
    /\ req.pc \in {"idle", "done"}
    /\ req' = [ReqIdle EXCEPT !.pc = "calling", !.method = method, !.endpoint = endpoint]
    /\ UNCHANGED <<jobs, fn, cl, fetch_logs, tables, sv, nSaves, orch>>

\* One attempt of _request, followed by tenacity's decision: retry after
\* the backoff wait, raise RetryError when the attempts are used up, or let
\* the function's result or exception through.
Attempt(t) ==
    /\ req.pc = "calling"
    /\ LET n == req.attempt_number + 1
           out == RequestBody(t)
       IN req' = [req EXCEPT
                     !.attempt_number = n,
                     !.transport = t,
                     !.outcome = IF RetryIf(out) /\ StopAfterAttempt(n)
                                   THEN Raised("RetryError", None, NoneStr)
                                   ELSE out,
                     !.pc = IF RetryIf(out) /\ ~StopAfterAttempt(n)
                              THEN "calling" ELSE "done"]
    /\ UNCHANGED <<jobs, fn, cl, fetch_logs, tables, sv, nSaves, orch>>

(***************************************************************************)
(* Helpers: dict access, Decimal quantize, sorted()                        *)
(***************************************************************************)

\* dict.get(k, default)
Get(d, k, default) == IF k \in DOMAIN d THEN d[k] ELSE default

\* A variant of quantize that cuts the amount down to two decimals.
QuantizeDown(x) == (x \div 100) * 100

\* Decimal.quantize(Decimal("0.01")) under the default context
\* (ROUND_HALF_EVEN), on amounts counted in 1/10000.
Quantize2(x) ==
    LET q == x \div 100
        r == x % 100
    IN IF r < 50 THEN q * 100
       ELSE IF r > 50 THEN (q + 1) * 100
       ELSE IF q % 2 = 0 THEN q * 100 ELSE (q + 1) * 100

\* Python's < on two tuples of integers of the same length.
TupleLess(a, b) ==
    \E i \in 1..Len(a) : a[i] < b[i] /\ \A j \in 1..(i - 1) : a[j] = b[j]

\* Insert the pair e = <<key, value>> after every pair whose key is <= e's.
InsertStable(s, e) ==
    LET k == Cardinality({i \in 1..Len(s) : ~TupleLess(e[1], s[i][1])})
    IN SubSeq(s, 1, k) \o <<e>> \o SubSeq(s, k + 1, Len(s))

RECURSIVE SortPairs(_)
\* sorted() on <<key, value>> pairs: ascending by key, stable.
SortPairs(s) ==
    IF s = <<>> THEN <<>>
    ELSE InsertStable(SortPairs(SubSeq(s, 1, Len(s) - 1)), s[Len(s)])

\* A variant of the price sort that returns the list in arrival order.
SortedByDatePeriodUnsorted(prices) == prices

\* sorted(prices, key=lambda p: (p.settlement_date, p.settlement_period))
SortedByDatePeriod(prices) ==
    LET pairs == [i \in 1..Len(prices) |->
                     <<<<prices[i].settlement_date, prices[i].settlement_period>>, prices[i]>>]
        srt == SortPairs(pairs)
    IN [i \in 1..Len(prices) |-> srt[i][2]]

\* sorted(readings, key=lambda x: x.datetime_from)
SortedByDatetimeFrom(readings) ==
    LET pairs == [i \in 1..Len(readings) |-> <<<<readings[i].datetime_from>>, readings[i]>>]
        srt == SortPairs(pairs)
    IN [i \in 1..Len(readings) |-> srt[i][2]]

\* [f(x) for x in s]
MapSeq(s, F(_)) == [i \in 1..Len(s) |-> F(s[i])]

(***************************************************************************)
(* models/price.py, models/carbon.py: the parsers                          *)
(***************************************************************************)

\* A variant of the period check that lets period 0 through.
ValidPeriodFromZero(v) == 0 <= v /\ v <= 50

\* settlement_period: int = Field(ge=1, le=50) and validate_settlement_period
ValidPeriod(v) == 1 <= v /\ v <= 50

\* SystemPrice.from_elexon_response raises nothing on this item.
SystemPriceParses(data) ==
    /\ {"systemSellPrice", "systemBuyPrice", "settlementDate", "settlementPeriod"}
           \subseteq DOMAIN data
    /\ ValidPeriod(data.settlementPeriod)

\* SystemPrice.from_elexon_response(data), for an item that parses.
SystemPriceFromElexon(data) ==
    LET ssp == data.systemSellPrice
        sbp == data.systemBuyPrice
        \* (ssp + sbp) / 2 is exact in 1/10000 for inputs in 1/1000
        net_price == (ssp + sbp) \div 2
    IN [settlement_date |-> data.settlementDate,
        settlement_period |-> data.settlementPeriod,
        system_sell_price |-> ssp,
        system_buy_price |-> sbp,
        price |-> Quantize2(net_price),
        data_source |-> "elexon_bmrs"]

\* DayAheadPrice.from_elexon_response raises nothing on this item.
DayAheadPriceParses(data) ==
    /\ {"settlementDate", "settlementPeriod", "price"} \subseteq DOMAIN data
    /\ ValidPeriod(data.settlementPeriod)

\* DayAheadPrice.from_elexon_response(data), for an item that parses.
DayAheadPriceFromElexon(data) ==
    [settlement_date |-> data.settlementDate,
     settlement_period |-> data.settlementPeriod,
     price |-> data.price,
     data_provider |-> Get(data, "dataProvider", "APXMIDP"),
     data_source |-> "elexon_bmrs"]

\* CarbonIntensity.from_api_response raises nothing on this item.
CarbonIntensityParses(data) == {"from", "to"} \subseteq DOMAIN data

\* CarbonIntensity.from_api_response(data), for an item that parses.
CarbonIntensityFromApi(data) ==
    LET intensity_data == Get(data, "intensity", <<>>)
    IN [datetime_from |-> data.from,
        datetime_to |-> data.to,
        intensity_forecast |-> Get(intensity_data, "forecast", 0),
        intensity_actual |-> Get(intensity_data, "actual", None),
        intensity_index |-> Get(intensity_data, "index", "unknown"),
        data_source |-> "national_grid"]

\* CarbonIntensity.intensity
Intensity(r) ==
    IF r.intensity_actual # None THEN r.intensity_actual ELSE r.intensity_forecast

\* FuelMix.from_api_response raises nothing on this item.
FuelMixParses(data) == {"from", "to"} \subseteq DOMAIN data

\* FuelMix.from_api_response(data), for an item that parses; generationmix
\* is the fuel -> perc map the code builds from the list.
FuelMixFromApi(data) ==
    LET fuel_map == Get(data, "generationmix", <<>>)
    IN [datetime_from |-> data.from,
        datetime_to |-> data.to,
        biomass |-> Get(fuel_map, "biomass", 0),
        coal |-> Get(fuel_map, "coal", 0),
        gas |-> Get(fuel_map, "gas", 0),
        hydro |-> Get(fuel_map, "hydro", 0),
        imports |-> Get(fuel_map, "imports", 0),
        nuclear |-> Get(fuel_map, "nuclear", 0),
        other |-> Get(fuel_map, "other", 0),
        solar |-> Get(fuel_map, "solar", 0),
        wind |-> Get(fuel_map, "wind", 0),
        data_source |-> "national_grid"]

(***************************************************************************)
(* clients/elexon.py, clients/carbon_intensity.py: by-date and range       *)
(* fetches.  A response is either that self.get raised, or the list under  *)
(* "data" of the JSON it returned (response.get("data", [])).              *)
(***************************************************************************)

RaiseResp == [raised |-> TRUE, data |-> <<>>]
DataResp(items) == [raised |-> FALSE, data |-> items]

Ok(v) == [kind |-> "return", value |-> v]
Fail(e) == [kind |-> "raise", value |-> e]

\* ElexonClient.get_system_prices(date): parse loop and sort.
get_system_prices(resp) ==
    IF resp.raised THEN Fail("APIError")
    ELSE Ok(SortedByDatePeriod(
                MapSeq(SelectSeq(resp.data, SystemPriceParses), SystemPriceFromElexon)))

\* ElexonClient.get_market_index_prices(from, to): parse loop and sort.
get_market_index_prices(resp) ==
    IF resp.raised THEN Fail("APIError")
    ELSE Ok(SortedByDatePeriod(
                MapSeq(SelectSeq(resp.data, DayAheadPriceParses), DayAheadPriceFromElexon)))

\* CarbonIntensityClient.get_by_date(date): parse loop and sort.
get_by_date(resp) ==
    IF resp.raised THEN Fail("APIError")
    ELSE Ok(SortedByDatetimeFrom(
                MapSeq(SelectSeq(resp.data, CarbonIntensityParses), CarbonIntensityFromApi)))

\* CarbonIntensityClient.get_fuel_mix_by_date(date): parse loop and sort.
get_fuel_mix_by_date(resp) ==
    IF resp.raised THEN Fail("APIError")
    ELSE Ok(SortedByDatetimeFrom(
                MapSeq(SelectSeq(resp.data, FuelMixParses), FuelMixFromApi)))

RECURSIVE RangeLoop(_, _, _, _, _)
\* The while loop of get_system_prices_range from current_date on: dayResp[d]
\* is the response to the request for day d.  Gives the accumulated prices
\* and the dates requested, in order.
RangeLoop(current_date, to_date, dayResp, all_prices, requested) ==
    IF current_date <= to_date
    THEN LET day == get_system_prices(dayResp[current_date])
         IN RangeLoop(current_date + 1, to_date, dayResp,
                      IF day.kind = "return" THEN all_prices \o day.value ELSE all_prices,
                      Append(requested, current_date))
    ELSE [all_prices |-> all_prices, requested |-> requested]

\* A variant of the range fetch that gives up at the first failing day.
get_system_prices_range_stop(from_date, to_date, dayResp) ==
    LET failing == {d \in from_date..to_date : dayResp[d].raised}
        last == IF failing = {} THEN to_date
                ELSE (CHOOSE d \in failing : \A e \in failing : d <= e) - 1
        loop == RangeLoop(from_date, last, dayResp, <<>>, <<>>)
    IN [result |-> Ok(SortedByDatePeriod(loop.all_prices)), requested |-> loop.requested]

\* ElexonClient.get_system_prices_range(from_date, to_date)
get_system_prices_range(from_date, to_date, dayResp) ==
    LET loop == RangeLoop(from_date, to_date, dayResp, <<>>, <<>>)
    IN [result |-> Ok(SortedByDatePeriod(loop.all_prices)), requested |-> loop.requested]

(***************************************************************************)
(* Client calls as actions                                                 *)
(***************************************************************************)

\* Longest response to a by-date call, in entries.
MaxEntries == 3
\* Last day a range fetch may name (days are 0..MaxRangeDay).
MaxRangeDay == 2

\* Half hours the readings of a by-date response start at.
ItemTimes == {0, 1}

\* Settlement periods on both sides of the bounds 1 and 50.
RawPeriods == {0, 1, 50, 51}

SeqsUpTo(S, n) == UNION {[1..k -> S] : k \in 0..n}

SystemItem(d, p) ==
    [settlementDate |-> d, settlementPeriod |-> p,
     systemSellPrice |-> 1000000, systemBuyPrice |-> 1100000]

SystemItems ==
    {SystemItem(0, p) : p \in RawPeriods}
    \cup {SystemItem(1, 1)}
    \cup {[settlementDate |-> 0, settlementPeriod |-> 1, systemSellPrice |-> 1000000],
          [settlementDate |-> 0, systemSellPrice |-> 1000000, systemBuyPrice |-> 1100000]}

DayAheadItems ==
    {[settlementDate |-> 0, settlementPeriod |-> p, price |-> 500000,
      dataProvider |-> "APXMIDP"] : p \in RawPeriods}
    \cup {[settlementDate |-> 1, settlementPeriod |-> 1, price |-> 500000,
           dataProvider |-> "APXMIDP"],
          [settlementDate |-> 0, settlementPeriod |-> 1, price |-> 500000,
           dataProvider |-> "N2EXMIDP"]}
    \cup {[settlementDate |-> 0, settlementPeriod |-> 1, price |-> 500000],
          [settlementDate |-> 0, settlementPeriod |-> 1, dataProvider |-> "APXMIDP"]}

CarbonItems ==
    {[from |-> t, to |-> t + 1, intensity |-> i] :
        t \in ItemTimes,
        i \in {[forecast |-> 150, actual |-> 145, index |-> "moderate"],
               [forecast |-> 150, index |-> "moderate"]}}
    \cup {[from |-> 0, to |-> 1],
          [from |-> 0, intensity |-> [forecast |-> 150, index |-> "moderate"]],
          [to |-> 1, intensity |-> [forecast |-> 150, index |-> "moderate"]]}

FuelItems ==
    {[from |-> t, to |-> t + 1, generationmix |-> g] :
        t \in ItemTimes,
        g \in {[gas |-> 40, wind |-> 60], [gas |-> 100]}}
    \cup {[from |-> 0, to |-> 1],
          [to |-> 1, generationmix |-> [gas |-> 100]]}

Responses(items) == {RaiseResp} \cup {DataResp(s) : s \in SeqsUpTo(items, MaxEntries)}

\* What one day of a range fetch answers: a failure, or entries written
\* <<day offset, period>>; an entry may be invalid or belong to the day before.
DayChoices ==
    {RaiseResp} \cup {DataResp(s) : s \in {<<>>, << <<0, 2>> >>, << <<0, 51>> >>,
                                           << <<-1, 1>> >>, << <<0, 2>>, <<-1, 1>> >>}}
DayResponse(d, choice) ==
    IF choice.raised THEN RaiseResp
    ELSE DataResp([i \in 1..Len(choice.data) |->
                      SystemItem(d + choice.data[i][1], choice.data[i][2])])

\* cl.resp holds what the upstream answered: the one response of a by-date
\* call, or the response to each day of a range call.
ClIdle ==
    [op |-> "none", from_date |-> 0, to_date |-> 0, resp |-> <<>>,
     result |-> Ok(<<>>), requested |-> <<>>]

ByDateCall(op, resp, result) ==
    /\ cl.op = "none"
    /\ cl' = [ClIdle EXCEPT !.op = op, !.resp = <<resp>>, !.result = result]
    /\ UNCHANGED <<jobs, fn, req, fetch_logs, tables, sv, nSaves, orch>>

GetSystemPrices ==
    \E resp \in Responses(SystemItems) :
        ByDateCall("get_system_prices", resp, get_system_prices(resp))

GetMarketIndexPrices ==
    \E resp \in Responses(DayAheadItems) :
        ByDateCall("get_market_index_prices", resp, get_market_index_prices(resp))

GetByDate ==
    \E resp \in Responses(CarbonItems) :
        ByDateCall("get_by_date", resp, get_by_date(resp))

GetFuelMixByDate ==
    \E resp \in Responses(FuelItems) :
        ByDateCall("get_fuel_mix_by_date", resp, get_fuel_mix_by_date(resp))

GetSystemPricesRange ==
    /\ cl.op = "none"
    /\ \E from_date \in 0..MaxRangeDay, to_date \in 0..MaxRangeDay :
        \E choice \in [from_date..to_date -> DayChoices] :
            LET dayResp == [d \in from_date..to_date |-> DayResponse(d, choice[d])]
                r == get_system_prices_range(from_date, to_date, dayResp)
            IN cl' = [op |-> "get_system_prices_range",
                      from_date |-> from_date, to_date |-> to_date,
                      resp |-> dayResp, result |-> r.result, requested |-> r.requested]
    /\ UNCHANGED <<jobs, fn, req, fetch_logs, tables, sv, nSaves, orch>>

(***************************************************************************)
(* storage/supabase.py: the writer and the database it talks to.           *)
(* A database call ends in one of three ways: "ok" (committed, returned),  *)
(* "fail" (nothing committed, raised) or "lost" (committed, but the call   *)
(* raised, as when the reply times out).  The wall-clock columns           *)
(* (started_at, completed_at, fetched_at) are left out of the rows.        *)
(***************************************************************************)

DbOutcomes == {"ok", "fail", "lost"}
Committed(outcome) == outcome # "fail"

\* The outcomes of the database calls one save_* makes: of _start_fetch_log,
\* of the upsert, of _complete_fetch_log in the try block and of
\* _complete_fetch_log in the except block.  A call that is not reached has
\* no outcome (written "ok").
SaveOutcomes ==
    {o \in [start : DbOutcomes, upsert : DbOutcomes, complete : DbOutcomes,
            complete_err : DbOutcomes] :
        /\ o.start # "ok" => o.upsert = "ok"
        /\ o.upsert # "ok" => o.complete = "ok"
        /\ (o.start # "ok" \/ (o.upsert = "ok" /\ o.complete = "ok")) => o.complete_err = "ok"}

\* The same for a call with log_fetch=False: only the upsert is made.
SaveOutcomesNoLog ==
    {o \in SaveOutcomes : o.start = "ok" /\ o.complete = "ok" /\ o.complete_err = "ok"}

UpsertFailed == "upsert failed"
StartLogFailed == "start_fetch_log failed"
CompleteLogFailed == "complete_fetch_log failed"

\* _start_fetch_log: the insert into fetch_logs; the new row's id is its index.
StartFetchLog(logs, fetch_type, metadata) ==
    Append(logs, [id |-> Len(logs) + 1,
                  fetch_type |-> fetch_type,
                  status |-> "running",
                  metadata |-> metadata,
                  records_fetched |-> None,
                  records_inserted |-> None,
                  records_updated |-> None,
                  error_message |-> NoneStr,
                  status_history |-> <<"running">>])

\* _complete_fetch_log: the update of the row with that id.  status_history
\* records every status written to the row.
CompleteFetchLog(logs, log_id, records_fetched, records_inserted, records_updated, status, error_message) ==
    [i \in 1..Len(logs) |->
        IF logs[i].id = log_id
        THEN [logs[i] EXCEPT !.records_fetched = records_fetched,
                             !.records_inserted = records_inserted,
                             !.records_updated = records_updated,
                             !.status = status,
                             !.error_message = error_message,
                             !.status_history = Append(@, status)]
        ELSE logs[i]]

\* A variant of the table write that inserts without conflict handling.
RECURSIVE InsertRows(_, _, _)
InsertRows(table, records, on_conflict) ==
    IF records = <<>> THEN table
    ELSE InsertRows(Append(table, Head(records)), Tail(records), on_conflict)

\* table.upsert(records, on_conflict=...): a record whose on_conflict columns
\* match a stored row replaces that row, any other record is appended.  For
\* a list that names one key twice the records are applied in order; whether
\* the database accepts such a statement is not fixed by the source, and the
\* outcome in which it raises is among the outcomes drawn for the upsert.
RECURSIVE Upsert(_, _, _)
Upsert(table, records, on_conflict) ==
    IF records = <<>> THEN table
    ELSE LET r == Head(records)
             hit == {i \in 1..Len(table) : \A c \in on_conflict : table[i][c] = r[c]}
             t1 == IF hit = {} THEN Append(table, r)
                   ELSE [i \in 1..Len(table) |-> IF i \in hit THEN r ELSE table[i]]
         IN Upsert(t1, Tail(records), on_conflict)

Stats(fetched, inserted, updated) ==
    [fetched |-> fetched, inserted |-> inserted, updated |-> updated]

\* The body shared by the four save_* methods, from "if not prices" on:
\* rows are the dicts built for the table, o the outcomes of the database
\* calls.  Gives the new fetch_logs and table, what the call returns or
\* raises, and the id of the fetch-log row it started (None if none).
SaveBody(fetch_type, rows, on_conflict, metadata, log_fetch, o, logs, table) ==
    IF rows = <<>>
    THEN [fetch_logs |-> logs, table |-> table, result |-> Ok(Stats(0, 0, 0)),
          log_id |-> None, row_id |-> None, upsert |-> "none"]
    ELSE IF log_fetch /\ o.start # "ok"
    THEN \* _start_fetch_log raised, before the try block
         [fetch_logs |-> IF Committed(o.start)
                           THEN StartFetchLog(logs, fetch_type, metadata) ELSE logs,
          table |-> table, result |-> Fail(StartLogFailed),
          log_id |-> None,
          row_id |-> IF Committed(o.start) THEN Len(logs) + 1 ELSE None,
          upsert |-> "none"]
    ELSE
      LET logs1 == IF log_fetch THEN StartFetchLog(logs, fetch_type, metadata) ELSE logs
          log_id == IF log_fetch THEN Len(logs1) ELSE None
          table1 == IF Committed(o.upsert) THEN Upsert(table, rows, on_conflict) ELSE table
          \* count = len(result.data)
          count == Len(rows)
          stats == Stats(Len(rows), count, 0)
          completes == o.upsert = "ok" /\ log_id # None
          logs2 == IF completes /\ Committed(o.complete)
                     THEN CompleteFetchLog(logs1, log_id, stats.fetched, stats.inserted,
                                           stats.updated, "success", NoneStr)
                     ELSE logs1
          \* the exception caught by "except Exception as e", if any
          e == IF o.upsert # "ok" THEN UpsertFailed
               ELSE IF completes /\ o.complete # "ok" THEN CompleteLogFailed
               ELSE NoneStr
          records_error == e # NoneStr /\ log_id # None
          logs3 == IF records_error /\ Committed(o.complete_err)
                     THEN CompleteFetchLog(logs2, log_id, Len(rows), 0, 0, "error", e)
                     ELSE logs2
      IN [fetch_logs |-> logs3, table |-> table1,
          result |-> IF e = NoneStr THEN Ok(stats)
                     ELSE IF records_error /\ o.complete_err # "ok"
                            THEN Fail(CompleteLogFailed)
                     ELSE Fail(e),
          log_id |-> log_id, row_id |-> log_id, upsert |-> o.upsert]

SeqMin(s, F(_)) == CHOOSE m \in {F(s[i]) : i \in 1..Len(s)} :
                       \A i \in 1..Len(s) : m <= F(s[i])
SeqMax(s, F(_)) == CHOOSE m \in {F(s[i]) : i \in 1..Len(s)} :
                       \A i \in 1..Len(s) : m >= F(s[i])
SettlementDate(p) == p.settlement_date

\* metadata = {"date_range": {"from": min date, "to": max date}}
DateRange(prices) ==
    IF prices = <<>> THEN <<>>
    ELSE <<SeqMin(prices, SettlementDate), SeqMax(prices, SettlementDate)>>

SystemPriceRow(p) ==
    [settlement_date |-> p.settlement_date, settlement_period |-> p.settlement_period,
     system_sell_price |-> p.system_sell_price, system_buy_price |-> p.system_buy_price,
     price |-> p.price, data_source |-> p.data_source]

DayAheadRow(p) ==
    [settlement_date |-> p.settlement_date, settlement_period |-> p.settlement_period,
     price |-> p.price, data_provider |-> p.data_provider, data_source |-> p.data_source]

CarbonRow(r) ==
    [datetime |-> r.datetime, intensity |-> r.intensity,
     intensity_index |-> Get(r, "intensity_index", NoneStr),
     data_source |-> Get(r, "data_source", "national_grid")]

FuelMixRow(fm) ==
    [datetime |-> fm.datetime_from, biomass |-> fm.biomass, coal |-> fm.coal,
     gas |-> fm.gas, hydro |-> fm.hydro, imports |-> fm.imports, nuclear |-> fm.nuclear,
     other |-> fm.other, solar |-> fm.solar, wind |-> fm.wind,
     data_source |-> fm.data_source]

SystemConflict == {"settlement_date", "settlement_period"}
DayAheadConflict == {"settlement_date", "settlement_period", "data_provider"}
DatetimeConflict == {"datetime"}

save_system_prices(prices, log_fetch, o, logs, table) ==
    SaveBody("system_prices", MapSeq(prices, SystemPriceRow), SystemConflict,
             DateRange(prices), log_fetch, o, logs, table)

save_day_ahead_prices(prices, log_fetch, o, logs, table) ==
    SaveBody("day_ahead_prices", MapSeq(prices, DayAheadRow), DayAheadConflict,
             DateRange(prices), log_fetch, o, logs, table)

save_carbon_intensity(records, log_fetch, o, logs, table) ==
    SaveBody("carbon_intensity", MapSeq(records, CarbonRow), DatetimeConflict,
             <<>>, log_fetch, o, logs, table)

save_fuel_mix(fuel_mixes, log_fetch, o, logs, table) ==
    SaveBody("fuel_mix", MapSeq(fuel_mixes, FuelMixRow), DatetimeConflict,
             <<>>, log_fetch, o, logs, table)

Sources == {"system_prices", "day_ahead_prices", "carbon_intensity", "fuel_mix"}

\* writer.save_<source>(records)
Save(source, records, log_fetch, o, logs, table) ==
    CASE source = "system_prices" -> save_system_prices(records, log_fetch, o, logs, table)
      [] source = "day_ahead_prices" -> save_day_ahead_prices(records, log_fetch, o, logs, table)
      [] source = "carbon_intensity" -> save_carbon_intensity(records, log_fetch, o, logs, table)
      [] source = "fuel_mix" -> save_fuel_mix(records, log_fetch, o, logs, table)

\* The row save_<source> builds from one record.
RowOf(source, record) ==
    CASE source = "system_prices" -> SystemPriceRow(record)
      [] source = "day_ahead_prices" -> DayAheadRow(record)
      [] source = "carbon_intensity" -> CarbonRow(record)
      [] source = "fuel_mix" -> FuelMixRow(record)

\* The dict fetch_carbon_intensity and backfill build from a reading.
CarbonRecord(r) ==
    [datetime |-> r.datetime_from, intensity |-> Intensity(r),
     intensity_index |-> r.intensity_index, data_source |-> r.data_source]

(***************************************************************************)
(* Writer calls as actions                                                 *)
(***************************************************************************)

\* Number of save_* calls in a run of the writer.
MaxSaves == 2

SystemRecord(k) ==
    SystemPriceFromElexon([settlementDate |-> 0, settlementPeriod |-> k[1],
                           systemSellPrice |-> k[2], systemBuyPrice |-> 1100000])
DayAheadRecord(k) ==
    DayAheadPriceFromElexon([settlementDate |-> 0, settlementPeriod |-> 1,
                             price |-> k[1], dataProvider |-> k[2]])
CarbonReading(k) ==
    CarbonRecord(CarbonIntensityFromApi(
        [from |-> k[1], to |-> k[1] + 1,
         intensity |-> [forecast |-> k[2], index |-> "moderate"]]))
FuelReading(k) ==
    FuelMixFromApi([from |-> k[1], to |-> k[1] + 1, generationmix |-> [gas |-> k[2]]])

\* Three records per source: a record, the same natural key with another
\* value, and a record with another natural key.
WriterRecords(source) ==
    CASE source = "system_prices" ->
           MapSeq(<< <<1, 1000000>>, <<1, 1200000>>, <<2, 1000000>> >>, SystemRecord)
      [] source = "day_ahead_prices" ->
           MapSeq(<< <<500000, "APXMIDP">>, <<600000, "APXMIDP">>, <<500000, "N2EXMIDP">> >>,
                  DayAheadRecord)
      [] source = "carbon_intensity" ->
           MapSeq(<< <<0, 150>>, <<0, 145>>, <<1, 150>> >>, CarbonReading)
      [] source = "fuel_mix" ->
           MapSeq(<< <<0, 40>>, <<0, 100>>, <<1, 40>> >>, FuelReading)

\* Every caller in scheduler.py leaves log_fetch at its default.
LogFetchDefault == TRUE

SvIdle ==
    [op |-> "none", records |-> <<>>, log_fetch |-> TRUE, result |-> Ok(Stats(0, 0, 0)),
     log_id |-> None, row_id |-> None, upsert |-> "none"]

NoTables == [s \in Sources |-> <<>>]

\* The lists a run of the writer is handed: nothing, one record, the same
\* key with another value, and two records with different keys.
WriterBatches(source) ==
    LET w == WriterRecords(source)
    IN {<<>>, <<w[1]>>, <<w[2]>>, <<w[1], w[3]>>}

\* The outcomes to draw for a list: an empty list makes no database call.
OutcomesFor(records, log_fetch) ==
    IF records = <<>> THEN {o \in SaveOutcomes : \A f \in DOMAIN o : o[f] = "ok"}
    ELSE IF log_fetch THEN SaveOutcomes
    ELSE SaveOutcomesNoLog

\* A run of the writer saves one source again and again, as the scheduler's
\* job for that source does.
SaveCall(source) ==
    /\ nSaves < MaxSaves
    /\ sv.op \in {"none", source}
    /\ \E records \in WriterBatches(source), log_fetch \in {LogFetchDefault} :
       \E o \in OutcomesFor(records, log_fetch) :
          LET r == Save(source, records, log_fetch, o, fetch_logs, tables[source])
          IN /\ fetch_logs' = r.fetch_logs
             /\ tables' = [tables EXCEPT ![source] = r.table]
             /\ sv' = [op |-> source, records |-> records, log_fetch |-> log_fetch,
                       result |-> r.result, log_id |-> r.log_id, row_id |-> r.row_id,
                       upsert |-> r.upsert]
    /\ nSaves' = nSaves + 1
    /\ UNCHANGED <<jobs, fn, req, cl, orch>>

SaveSystemPrices == SaveCall("system_prices")
SaveDayAheadPrices == SaveCall("day_ahead_prices")
SaveCarbonIntensity == SaveCall("carbon_intensity")
SaveFuelMix == SaveCall("fuel_mix")

(***************************************************************************)
(* scheduler.py: DataFetcher.  Every fetch gives the new fetch_logs and    *)
(* table, what it returns or raises, and the upstream requests and writer  *)
(* calls it made, in order.                                                *)
(***************************************************************************)

\* date.today() at the start of an operation.
Today == 10

\* date.today() read again after a read that gave since: the same date, or
\* the next one when midnight has passed in between.  One operation sees at
\* most one midnight.
TodayReads(since) == IF since = Today THEN {Today, Today + 1} ELSE {since}

\* First instant of day d, in half hours.
DayStart(d) == d * 48

ReqEv(what, from_date, to_date) ==
    [ev |-> "request", what |-> what, from_date |-> from_date, to_date |-> to_date]
SaveEv(source, records) ==
    [ev |-> "save", what |-> source, records |-> records]
\* What the client call behind the last request returned or raised.
AnsEv(what, result) ==
    [ev |-> "answer", what |-> what, result |-> result]

Min(a, b) == IF a <= b THEN a ELSE b

FetchResult(s, events) ==
    [fetch_logs |-> s.fetch_logs, table |-> s.table, result |-> s.result, events |-> events]
\* The fetch raised before reaching the writer.
FetchRaised(e, logs, table, events) ==
    [fetch_logs |-> logs, table |-> table, result |-> Fail(e), events |-> events]

\* What the upstream answers to one request, as the caller of the model
\* chooses it: "raise", "empty", "own" (one entry dated at the start of the
\* requested window) or "first" (one entry dated first_date).
UpstreamChoices == {"raise", "empty", "own"}
ChunkChoices == {"raise", "empty", "own", "first"}

SystemResponse(choice, d) ==
    IF choice = "raise" THEN RaiseResp
    ELSE IF choice = "empty" THEN DataResp(<<>>)
    ELSE DataResp(<<SystemItem(d, 1)>>)

DayAheadResponse(choice, d, first_date) ==
    IF choice = "raise" THEN RaiseResp
    ELSE IF choice = "empty" THEN DataResp(<<>>)
    ELSE DataResp(<<[settlementDate |-> IF choice = "first" THEN first_date ELSE d,
                     settlementPeriod |-> 1, price |-> 500000, dataProvider |-> "APXMIDP"]>>)

CarbonResponse(choice, d) ==
    IF choice = "raise" THEN RaiseResp
    ELSE IF choice = "empty" THEN DataResp(<<>>)
    ELSE DataResp(<<[from |-> DayStart(d), to |-> DayStart(d) + 1,
                     intensity |-> [forecast |-> 150, actual |-> 145, index |-> "moderate"]]>>)

FuelResponse(choice, d) ==
    IF choice = "raise" THEN RaiseResp
    ELSE IF choice = "empty" THEN DataResp(<<>>)
    ELSE DataResp(<<[from |-> DayStart(d), to |-> DayStart(d) + 1,
                     generationmix |-> [gas |-> 40, wind |-> 60]]>>)

\* choice[k] if the caller chose an answer for request k, else an empty answer.
ChoiceAt(choice, k) == IF k \in DOMAIN choice THEN choice[k] ELSE "empty"

\* fetch_system_prices(days_back=...) and the system_prices block of
\* backfill: get_system_prices_range, then save_system_prices.
fetch_system_prices(from_date, to_date, choice, o, logs, table) ==
    LET dayResp == [d \in from_date..to_date |-> SystemResponse(ChoiceAt(choice, d), d)]
        rng == get_system_prices_range(from_date, to_date, dayResp)
        prices == rng.result.value
        s == save_system_prices(prices, TRUE, o, logs, table)
    IN FetchResult(s, [i \in 1..Len(rng.requested) |->
                          ReqEv("system_prices", rng.requested[i], rng.requested[i])]
                      \o <<SaveEv("system_prices", prices)>>)

\* fetch_day_ahead_prices(days_back=...): one range request, then
\* save_day_ahead_prices.
fetch_day_ahead_prices(from_date, to_date, choice, o, logs, table) ==
    LET r == get_market_index_prices(DayAheadResponse(choice, from_date, from_date))
        request == <<ReqEv("day_ahead_prices", from_date, to_date)>>
    IN IF r.kind = "raise" THEN FetchRaised(r.value, logs, table, request)
       ELSE FetchResult(save_day_ahead_prices(r.value, TRUE, o, logs, table),
                        request \o <<SaveEv("day_ahead_prices", r.value)>>)

\* fetch_carbon_intensity(): get_yesterday, get_today, then
\* save_carbon_intensity.  today_1 and today_2 are date.today() as read by
\* get_yesterday and by get_today; choice[1] and choice[2] are the answers
\* to the two requests.
fetch_carbon_intensity(today_1, today_2, choice, o, logs, table) ==
    LET y == get_by_date(CarbonResponse(choice[1], today_1 - 1))
        t == get_by_date(CarbonResponse(choice[2], today_2))
        ry == ReqEv("carbon_intensity", today_1 - 1, today_1 - 1)
        rt == ReqEv("carbon_intensity", today_2, today_2)
    IN IF y.kind = "raise" THEN FetchRaised(y.value, logs, table, <<ry>>)
       ELSE IF t.kind = "raise" THEN FetchRaised(t.value, logs, table, <<ry, rt>>)
       ELSE LET records == MapSeq(y.value \o t.value, CarbonRecord)
            IN FetchResult(save_carbon_intensity(records, TRUE, o, logs, table),
                           <<ry, rt, SaveEv("carbon_intensity", records)>>)

\* fetch_fuel_mix(): yesterday's fuel mix, then save_fuel_mix.  today is
\* date.today() as read for yesterday.
fetch_fuel_mix(today, choice, o, logs, table) ==
    LET yesterday == today - 1
        r == get_fuel_mix_by_date(FuelResponse(choice, yesterday))
        request == <<ReqEv("fuel_mix", yesterday, yesterday)>>
    IN IF r.kind = "raise" THEN FetchRaised(r.value, logs, table, request)
       ELSE FetchResult(save_fuel_mix(r.value, TRUE, o, logs, table),
                        request \o <<SaveEv("fuel_mix", r.value)>>)

\* A variant of the window end that makes eight-day windows.
BatchEndEightDays(current, to_date) == Min(current + 7, to_date)

\* batch_end = min(current + timedelta(days=6), to_date)
BatchEnd(current, to_date) == Min(current + 6, to_date)

RECURSIVE DayAheadLoop(_, _, _, _, _, _)
\* The while loop of backfill's day_ahead_prices block from current on;
\* choice[k] is the upstream's answer to the k-th request.
DayAheadLoop(current, to_date, first_date, choice, all_prices, events) ==
    IF current <= to_date
    THEN LET batch_end == BatchEnd(current, to_date)
             r == get_market_index_prices(
                      DayAheadResponse(ChoiceAt(choice, (Len(events) \div 2) + 1),
                                       current, first_date))
         IN DayAheadLoop(batch_end + 1, to_date, first_date, choice,
                         IF r.kind = "return" THEN all_prices \o r.value ELSE all_prices,
                         events \o <<ReqEv("day_ahead_prices", current, batch_end),
                                     AnsEv("day_ahead_prices", r)>>)
    ELSE [all_prices |-> all_prices, events |-> events]

\* The day_ahead_prices block of backfill.
backfill_day_ahead_prices(from_date, to_date, choice, o, logs, table) ==
    LET loop == DayAheadLoop(from_date, to_date, from_date, choice, <<>>, <<>>)
    IN FetchResult(save_day_ahead_prices(loop.all_prices, TRUE, o, logs, table),
                   loop.events \o <<SaveEv("day_ahead_prices", loop.all_prices)>>)

RECURSIVE CarbonLoop(_, _, _, _, _)
\* The while loop of backfill's carbon_intensity block.
CarbonLoop(current, to_date, choice, all_readings, events) ==
    IF current <= to_date
    THEN LET r == get_by_date(CarbonResponse(ChoiceAt(choice, current), current))
         IN CarbonLoop(current + 1, to_date, choice,
                       IF r.kind = "return" THEN all_readings \o r.value ELSE all_readings,
                       Append(events, ReqEv("carbon_intensity", current, current)))
    ELSE [all_readings |-> all_readings, events |-> events]

\* The carbon_intensity block of backfill.
backfill_carbon_intensity(from_date, to_date, choice, o, logs, table) ==
    LET loop == CarbonLoop(from_date, to_date, choice, <<>>, <<>>)
        records == MapSeq(loop.all_readings, CarbonRecord)
    IN FetchResult(save_carbon_intensity(records, TRUE, o, logs, table),
                   loop.events \o <<SaveEv("carbon_intensity", records)>>)

RECURSIVE FuelMixLoop(_, _, _, _, _)
\* The while loop of backfill's fuel_mix block.
FuelMixLoop(current, to_date, choice, all_fuel_mixes, events) ==
    IF current <= to_date
    THEN LET r == get_fuel_mix_by_date(FuelResponse(ChoiceAt(choice, current), current))
         IN FuelMixLoop(current + 1, to_date, choice,
                        IF r.kind = "return" THEN all_fuel_mixes \o r.value
                        ELSE all_fuel_mixes,
                        Append(events, ReqEv("fuel_mix", current, current)))
    ELSE [all_fuel_mixes |-> all_fuel_mixes, events |-> events]

\* The fuel_mix block of backfill.
backfill_fuel_mix(from_date, to_date, choice, o, logs, table) ==
    LET loop == FuelMixLoop(from_date, to_date, choice, <<>>, <<>>)
    IN FetchResult(save_fuel_mix(loop.all_fuel_mixes, TRUE, o, logs, table),
                   loop.events \o <<SaveEv("fuel_mix", loop.all_fuel_mixes)>>)

(***************************************************************************)
(* DataFetcher.fetch_all and DataFetcher.backfill as actions, one per      *)
(* source block                                                            *)
(***************************************************************************)

\* Largest days_back handed to fetch_all.
MaxDaysBack == 1
\* Last day of a backfill of every source or of a per-day source.
MaxShortDay == 2
\* Last day of a backfill of day_ahead_prices alone.
MaxLongDay == 15

StageAfter(source) ==
    CASE source = "system_prices" -> "day_ahead_prices"
      [] source = "day_ahead_prices" -> "carbon_intensity"
      [] source = "carbon_intensity" -> "fuel_mix"
      [] source = "fuel_mix" -> "done"

OrchIdle ==
    [op |-> "none", pc |-> "idle", days_back |-> 0, from_date |-> 0, to_date |-> 0,
     data_types |-> {}, results |-> <<>>, outcome |-> "none", exc |-> NoneStr,
     trace |-> <<>>, ended |-> <<>>, today |-> Today]

\* results[source] = value
Put(results, source, value) ==
    [s \in DOMAIN results \cup {source} |-> IF s = source THEN value ELSE results[s]]

ErrorEntry(message) == [error |-> message]

\* The database outcomes the orchestrator's saves meet: all calls succeed,
\* the log insert fails, the upsert fails and the error is logged, the
\* upsert fails and logging the error fails too.
OrchOutcomes ==
    {o \in SaveOutcomes :
        /\ "lost" \notin {o.start, o.upsert, o.complete, o.complete_err}
        /\ o.complete = "ok"}

\* A variant of a fetch_all block without the try/except: the exception
\* leaves fetch_all.
UncaughtBlock(o, source, r) ==
    IF r.result.kind = "raise"
    THEN [o EXCEPT !.pc = "done", !.outcome = "raised", !.exc = r.result.value,
                   !.trace = @ \o r.events,
                   !.ended = Put(@, source, r.result)]
    ELSE [o EXCEPT !.pc = StageAfter(source),
                   !.outcome = IF StageAfter(source) = "done" THEN "returned" ELSE "running",
                   !.results = Put(@, source, r.result.value),
                   !.trace = @ \o r.events,
                   !.ended = Put(@, source, r.result)]

\* One try/except block of fetch_all around the fetch of one source that
\* ended as r; after the last block fetch_all returns results.
FetchAllBlock(o, source, r) ==
    [o EXCEPT !.pc = StageAfter(source),
              !.outcome = IF StageAfter(source) = "done" THEN "returned" ELSE "running",
              !.results = Put(@, source, IF r.result.kind = "raise"
                                           THEN ErrorEntry(r.result.value)
                                           ELSE r.result.value),
              !.trace = @ \o r.events,
              !.ended = Put(@, source, r.result)]

\* One "if source in data_types" block of backfill whose fetch and save
\* ended as r: an exception leaves backfill.
BackfillBlock(o, source, r) ==
    IF r.result.kind = "raise"
    THEN [o EXCEPT !.pc = "done", !.outcome = "raised", !.exc = r.result.value,
                   !.trace = @ \o r.events,
                   !.ended = Put(@, source, r.result)]
    ELSE [o EXCEPT !.pc = StageAfter(source),
                   !.outcome = IF StageAfter(source) = "done" THEN "returned" ELSE "running",
                   !.results = Put(@, source, r.result.value),
                   !.trace = @ \o r.events,
                   !.ended = Put(@, source, r.result)]

\* The block of a source that is not in data_types.
BackfillSkip(o, source) ==
    [o EXCEPT !.pc = StageAfter(source),
              !.outcome = IF StageAfter(source) = "done" THEN "returned" ELSE "running"]

Commit(source, r) ==
    /\ fetch_logs' = r.fetch_logs
    /\ tables' = [tables EXCEPT ![source] = r.table]
    /\ UNCHANGED <<jobs, fn, req, cl, sv, nSaves>>

\* fetch_all(days_back): the dates are read by each fetch, when it runs.
\* orch.today is the value date.today() gave last.
StartFetchAll ==
    /\ orch.op = "none"
    /\ \E days_back \in 0..MaxDaysBack :
          orch' = [OrchIdle EXCEPT !.op = "fetch_all", !.pc = "system_prices",
                                   !.days_back = days_back,
                                   !.data_types = Sources, !.outcome = "running"]
    /\ UNCHANGED <<jobs, fn, req, cl, fetch_logs, tables, sv, nSaves>>

FetchAllSystemPrices ==
    /\ orch.op = "fetch_all" /\ orch.pc = "system_prices"
    /\ \E today_1 \in TodayReads(orch.today) :
       \E today_2 \in TodayReads(today_1) :
          LET from_date == today_1 - orch.days_back
              to_date == today_2
          IN \E choice \in [from_date..to_date -> UpstreamChoices], o \in OrchOutcomes :
                LET r == fetch_system_prices(from_date, to_date, choice, o,
                                             fetch_logs, tables["system_prices"])
                IN /\ orch' = [FetchAllBlock(orch, "system_prices", r)
                                  EXCEPT !.today = today_2]
                   /\ Commit("system_prices", r)

FetchAllDayAheadPrices ==
    /\ orch.op = "fetch_all" /\ orch.pc = "day_ahead_prices"
    /\ \E today_1 \in TodayReads(orch.today) :
       \E today_2 \in TodayReads(today_1) :
       \E choice \in UpstreamChoices, o \in OrchOutcomes :
          LET from_date == today_1 - orch.days_back
              to_date == today_2
              r == fetch_day_ahead_prices(from_date, to_date, choice, o,
                                          fetch_logs, tables["day_ahead_prices"])
          IN /\ orch' = [FetchAllBlock(orch, "day_ahead_prices", r)
                            EXCEPT !.today = today_2]
             /\ Commit("day_ahead_prices", r)

FetchAllCarbonIntensity ==
    /\ orch.op = "fetch_all" /\ orch.pc = "carbon_intensity"
    /\ \E today_1 \in TodayReads(orch.today) :
       \E today_2 \in TodayReads(today_1) :
       \E choice \in [1..2 -> UpstreamChoices], o \in OrchOutcomes :
          LET r == fetch_carbon_intensity(today_1, today_2, choice, o,
                                          fetch_logs, tables["carbon_intensity"])
          IN /\ orch' = [FetchAllBlock(orch, "carbon_intensity", r)
                            EXCEPT !.today = today_2]
             /\ Commit("carbon_intensity", r)

FetchAllFuelMix ==
    /\ orch.op = "fetch_all" /\ orch.pc = "fuel_mix"
    /\ \E today \in TodayReads(orch.today) :
       \E choice \in UpstreamChoices, o \in OrchOutcomes :
          LET r == fetch_fuel_mix(today, choice, o, fetch_logs, tables["fuel_mix"])
          IN /\ orch' = [FetchAllBlock(orch, "fuel_mix", r) EXCEPT !.today = today]
             /\ Commit("fuel_mix", r)

\* The calls backfill gets: every source or a per-day source over a short
\* range, day_ahead_prices alone over a long one, and one empty range.
BackfillInputs ==
    {[from_date |-> f, to_date |-> t, data_types |-> dt] :
        f \in 0..1, t \in 0..MaxShortDay,
        dt \in {Sources, {"system_prices"}, {"carbon_intensity"}, {"fuel_mix"}}}
    \cup {[from_date |-> f, to_date |-> t, data_types |-> {"day_ahead_prices"}] :
             f \in 0..1, t \in 0..MaxLongDay}

StartBackfill ==
    /\ orch.op = "none"
    /\ \E in \in BackfillInputs :
          orch' = [OrchIdle EXCEPT !.op = "backfill", !.pc = "system_prices",
                                   !.from_date = in.from_date, !.to_date = in.to_date,
                                   !.data_types = in.data_types, !.outcome = "running"]
    /\ UNCHANGED <<jobs, fn, req, cl, fetch_logs, tables, sv, nSaves>>

\* Upper bound on the requests one block makes over the range.
RangeDays == orch.from_date..orch.to_date

BackfillSystemPrices ==
    /\ orch.op = "backfill" /\ orch.pc = "system_prices"
    /\ IF "system_prices" \in orch.data_types
       THEN \E choice \in [RangeDays -> UpstreamChoices], o \in OrchOutcomes :
               LET r == fetch_system_prices(orch.from_date, orch.to_date, choice, o,
                                            fetch_logs, tables["system_prices"])
               IN /\ orch' = BackfillBlock(orch, "system_prices", r)
                  /\ Commit("system_prices", r)
       ELSE /\ orch' = BackfillSkip(orch, "system_prices")
            /\ UNCHANGED <<jobs, fn, req, cl, fetch_logs, tables, sv, nSaves>>

\* Number of seven-day windows that cover the range.
NumWindows == (orch.to_date - orch.from_date + 7) \div 7

BackfillDayAheadPrices ==
    /\ orch.op = "backfill" /\ orch.pc = "day_ahead_prices"
    /\ IF "day_ahead_prices" \in orch.data_types
       THEN \E choice \in [1..NumWindows -> ChunkChoices], o \in OrchOutcomes :
               LET r == backfill_day_ahead_prices(orch.from_date, orch.to_date, choice, o,
                                                  fetch_logs, tables["day_ahead_prices"])
               IN /\ orch' = BackfillBlock(orch, "day_ahead_prices", r)
                  /\ Commit("day_ahead_prices", r)
       ELSE /\ orch' = BackfillSkip(orch, "day_ahead_prices")
            /\ UNCHANGED <<jobs, fn, req, cl, fetch_logs, tables, sv, nSaves>>

BackfillCarbonIntensity ==
    /\ orch.op = "backfill" /\ orch.pc = "carbon_intensity"
    /\ IF "carbon_intensity" \in orch.data_types
       THEN \E choice \in [RangeDays -> UpstreamChoices], o \in OrchOutcomes :
               LET r == backfill_carbon_intensity(orch.from_date, orch.to_date, choice, o,
                                                  fetch_logs, tables["carbon_intensity"])
               IN /\ orch' = BackfillBlock(orch, "carbon_intensity", r)
                  /\ Commit("carbon_intensity", r)
       ELSE /\ orch' = BackfillSkip(orch, "carbon_intensity")
            /\ UNCHANGED <<jobs, fn, req, cl, fetch_logs, tables, sv, nSaves>>

BackfillFuelMix ==
    /\ orch.op = "backfill" /\ orch.pc = "fuel_mix"
    /\ IF "fuel_mix" \in orch.data_types
       THEN \E choice \in [RangeDays -> UpstreamChoices], o \in OrchOutcomes :
               LET r == backfill_fuel_mix(orch.from_date, orch.to_date, choice, o,
                                          fetch_logs, tables["fuel_mix"])
               IN /\ orch' = BackfillBlock(orch, "fuel_mix", r)
                  /\ Commit("fuel_mix", r)
       ELSE /\ orch' = BackfillSkip(orch, "fuel_mix")
            /\ UNCHANGED <<jobs, fn, req, cl, fetch_logs, tables, sv, nSaves>>

(***************************************************************************)
(* scheduler.py: Scheduler.  Jobs that run at the same time against one    *)
(* database: fetch jobs of one source, and the daily maintenance job, a    *)
(* backfill that goes through the four sources.  A job's steps are the     *)
(* upstream fetch and the three database calls of save_*; steps of         *)
(* different jobs interleave in any order.                                 *)
(***************************************************************************)

\* Number of jobs that overlap.
NumJobs == 2

JobIds == 1..NumJobs

\* saved lists what the job has handed to save_* so far: the source, the
\* list, and the id of the fetch-log row (None when save_* returned early).
JobIdle ==
    [pc |-> "idle", source |-> NoneStr, records |-> <<>>, log_id |-> None,
     maintenance |-> FALSE, saved |-> <<>>]

\* A variant of the id lookup that takes the oldest row still 'running'.
OldestRunningLogId(logs) ==
    (CHOOSE i \in 1..Len(logs) :
        /\ logs[i].status = "running"
        /\ \A k \in 1..(i - 1) : logs[k].status # "running")

\* return result.data[0]["id"]: the id of the row the insert just wrote.
InsertedLogId(logs) == logs[Len(logs)].id

\* The metadata save_<source> hands to _start_fetch_log: the date range of
\* the list for the two price sources, nothing for the other two.
StartMetadata(source, records) ==
    IF source \in {"system_prices", "day_ahead_prices"} THEN DateRange(records) ELSE <<>>

\* The job after save_* returned: a fetch job is over, the maintenance job
\* goes on to the next source of the backfill.
JobSaved(job) ==
    [job EXCEPT !.pc = IF job.maintenance /\ StageAfter(job.source) # "done"
                       THEN "saved" ELSE "done",
                !.saved = Append(@, [source |-> job.source, records |-> job.records,
                                     log_id |-> job.log_id])]

\* _fetch_*_job: the job's fetch from the upstream, which gives the list it
\* will hand to save_*.
JobFetch(j, source) ==
    /\ jobs[j].pc = "idle"
    /\ \A k \in JobIds : jobs[k].pc = "idle" \/ jobs[k].maintenance \/ jobs[k].source = source
    /\ \E records \in WriterBatches(source) :
          jobs' = [jobs EXCEPT ![j] = [JobIdle EXCEPT !.pc = "fetched", !.source = source,
                                                      !.records = records]]
    /\ UNCHANGED <<req, cl, fetch_logs, tables, sv, nSaves, orch, fn>>

\* The lists the backfill of one source hands to save_*: nothing, or two
\* records with different keys.
BackfillBatches(source) ==
    LET w == WriterRecords(source)
    IN {<<>>, <<w[1], w[3]>>}

\* _daily_maintenance_job: backfill(today - 7, today - 1) of every source.
\* The step is the fetch of the backfill's next source, system_prices
\* first.  The scheduler runs one instance of the job at a time; the job
\* ids being interchangeable, it is job 1.
JobMaintenanceFetch(j) ==
    /\ j = 1
    /\ jobs[j].pc = "idle" \/ jobs[j].pc = "saved"
    /\ LET source == IF jobs[j].pc = "idle" THEN "system_prices"
                     ELSE StageAfter(jobs[j].source)
       IN \E records \in BackfillBatches(source) :
             jobs' = [jobs EXCEPT ![j] = [@ EXCEPT !.pc = "fetched", !.source = source,
                                                   !.records = records, !.log_id = None,
                                                   !.maintenance = TRUE]]
    /\ UNCHANGED <<req, cl, fetch_logs, tables, sv, nSaves, orch, fn>>

\* save_*: the early return on an empty list, else _start_fetch_log.
JobStartLog(j) ==
    /\ jobs[j].pc = "fetched"
    /\ IF jobs[j].records = <<>>
       THEN /\ jobs' = [jobs EXCEPT ![j] = JobSaved(@)]
            /\ UNCHANGED fetch_logs
       ELSE LET logs1 == StartFetchLog(fetch_logs, jobs[j].source,
                                       StartMetadata(jobs[j].source, jobs[j].records))
            IN /\ fetch_logs' = logs1
               /\ jobs' = [jobs EXCEPT ![j].pc = "started",
                                       ![j].log_id = InsertedLogId(logs1)]
    /\ UNCHANGED <<req, cl, tables, sv, nSaves, orch, fn>>

\* save_*: the upsert of the job's rows.
JobUpsert(j) ==
    /\ jobs[j].pc = "started"
    /\ LET r == Save(jobs[j].source, jobs[j].records, FALSE,
                     CHOOSE o \in SaveOutcomesNoLog : o.upsert = "ok",
                     <<>>, tables[jobs[j].source])
       IN tables' = [tables EXCEPT ![jobs[j].source] = r.table]
    /\ jobs' = [jobs EXCEPT ![j].pc = "upserted"]
    /\ UNCHANGED <<req, cl, fetch_logs, sv, nSaves, orch, fn>>

\* save_*: _complete_fetch_log with the job's own id and counts.
JobCompleteLog(j) ==
    /\ jobs[j].pc = "upserted"
    /\ fetch_logs' = CompleteFetchLog(fetch_logs, jobs[j].log_id, Len(jobs[j].records),
                                      Len(jobs[j].records), 0, "success", NoneStr)
    /\ jobs' = [jobs EXCEPT ![j] = JobSaved(@)]
    /\ UNCHANGED <<req, cl, tables, sv, nSaves, orch, fn>>

\* No utility or model function called yet.
FnIdle ==
    [pc |-> "idle", arg |-> <<>>, raised |-> FALSE, result |-> <<>>, requests |-> <<>>]

\* A call of one function: what it was given (arg[1]) and what it returned or
\* raised (result[1]).
Call(op, arg, out) ==
    [pc |-> op, arg |-> <<arg>>, raised |-> out.kind = "raise", result |-> <<out.value>>,
     requests |-> <<>>]

\* The same for a call whose upstream requests are kept (requests).
CallWith(op, arg, out, requests) == [Call(op, arg, out) EXCEPT !.requests = requests]

(***************************************************************************)
(* utils/time.py.  A time of day is [hour, minute].  An aware datetime is   *)
(* its wall-clock reading in minutes since 00:00 of day 0, its tzinfo       *)
(* object and the UTC offset, in minutes, that the zone gives that reading. *)
(***************************************************************************)

\* datetime.time(hour=..., minute=...): ValueError unless hour is in 0..23
\* and minute in 0..59.
Time(hour, minute) ==
    IF hour \in 0..23 /\ minute \in 0..59
    THEN Ok([hour |-> hour, minute |-> minute])
    ELSE Fail("ValueError")

settlement_period_to_time(period) ==
    IF ~(1 <= period /\ period <= 50) THEN Fail("ValueError")
    ELSE LET minutes == (period - 1) * 30
             hours == minutes \div 60
             mins == minutes % 60
         IN Time(hours, mins)

time_to_settlement_period(t) ==
    LET total_minutes == t.hour * 60 + t.minute
    IN (total_minutes \div 30) + 1

\* The last day of the calendar the dates are drawn from.
MaxCalendarDay == 4

\* Europe/London at local midnight of day d.  In the calendar of the model
\* the clocks go forward during day 1 and back during day 3: the midnights
\* that start days 2 and 3 are on summer time (UTC+1).
UtcOffset(d) == IF d \in 2..3 THEN 60 ELSE 0

\* datetime.combine(d, time(0, 0), tzinfo=UK_TZ)
LocalMidnight(d) == [wall |-> d * 1440, tzinfo |-> "UK_TZ", utcoffset |-> UtcOffset(d)]

\* A variant of the subtraction with the operands exchanged (start - end).
DatetimeSubReversed(a, b) ==
    IF a.tzinfo = b.tzinfo THEN b.wall - a.wall
    ELSE (b.wall - b.utcoffset) - (a.wall - a.utcoffset)

\* datetime.__sub__ on two aware datetimes, in minutes: operands that carry
\* the same tzinfo object are subtracted as wall-clock readings, with no
\* time zone adjustment; otherwise both are taken to UTC first.
DatetimeSub(a, b) ==
    IF a.tzinfo = b.tzinfo THEN a.wall - b.wall
    ELSE (a.wall - a.utcoffset) - (b.wall - b.utcoffset)

\* The if/elif/else of get_periods_in_day on the duration it computed
\* (duration_hours == 24 is duration_minutes = 1440).
PeriodsForDuration(duration_minutes) ==
    IF duration_minutes = 24 * 60 THEN Ok(48)
    ELSE IF duration_minutes = 23 * 60 THEN Ok(46)
    ELSE Ok(50)

get_periods_in_day(d) ==
    LET start == LocalMidnight(d)
        end == LocalMidnight(d + 1)
    IN PeriodsForDuration(DatetimeSub(end, start))

\* The periods handed to settlement_period_to_time and to the constructors.
MaxPeriodArg == 52
PeriodArgs == (0 - 2)..MaxPeriodArg

SettlementPeriodToTime ==
    /\ fn.pc = "idle"
    /\ \E period \in PeriodArgs :
        fn' = Call("settlement_period_to_time", period, settlement_period_to_time(period))
    /\ UNCHANGED <<req, cl, fetch_logs, tables, sv, nSaves, orch, jobs>>

GetPeriodsInDay ==
    /\ fn.pc = "idle"
    /\ \E d \in 0..MaxCalendarDay :
        fn' = Call("get_periods_in_day", d, get_periods_in_day(d))
    /\ UNCHANGED <<req, cl, fetch_logs, tables, sv, nSaves, orch, jobs>>

(***************************************************************************)
(* models/price.py: construction of SystemPrice and DayAheadPrice           *)
(***************************************************************************)

\* cls(**fields): pydantic runs Field(ge=1, le=50) and the field validator.
Construct(cls, fields) ==
    IF ValidPeriod(fields.settlement_period)
    THEN Ok(fields)
    ELSE Fail("ValidationError")

\* cls.from_elexon_response(data)
from_elexon_response(cls, data) ==
    IF cls = "SystemPrice"
    THEN IF SystemPriceParses(data) THEN Ok(SystemPriceFromElexon(data))
         ELSE Fail("Exception")
    ELSE IF DayAheadPriceParses(data) THEN Ok(DayAheadPriceFromElexon(data))
         ELSE Fail("Exception")

\* Sell, buy and day-ahead amounts as the API gives them, with up to three
\* decimals: 100, 100.005, 100.01, 100.015, 109, 110, 0 and -0.015.
PriceInputs == {1000000, 1000050, 1000100, 1000150, 1090000, 1100000, 0, 0 - 150}

PriceData(cls, period, a, b) ==
    IF cls = "SystemPrice"
    THEN [settlementDate |-> 0, settlementPeriod |-> period,
          systemSellPrice |-> a, systemBuyPrice |-> b]
    ELSE [settlementDate |-> 0, settlementPeriod |-> period, price |-> a]

ConstructPrice ==
    /\ fn.pc = "idle"
    /\ \E cls \in {"SystemPrice", "DayAheadPrice"}, period \in PeriodArgs :
        LET fields == IF cls = "SystemPrice"
                      THEN [settlement_date |-> 0, settlement_period |-> period,
                            system_sell_price |-> 1000000, system_buy_price |-> 1100000,
                            price |-> 1050000, data_source |-> "elexon_bmrs"]
                      ELSE [settlement_date |-> 0, settlement_period |-> period,
                            price |-> 500000, data_provider |-> "APXMIDP",
                            data_source |-> "elexon_bmrs"]
        IN fn' = Call("construct", [cls |-> cls, fields |-> fields], Construct(cls, fields))
    /\ UNCHANGED <<req, cl, fetch_logs, tables, sv, nSaves, orch, jobs>>

FromElexonResponse ==
    /\ fn.pc = "idle"
    /\ \E data \in {PriceData(cls, period, 1000000, 1100000) :
                         cls \in {"SystemPrice", "DayAheadPrice"}, period \in PeriodArgs}
                    \cup {PriceData("SystemPrice", 1, a, b) : a \in PriceInputs, b \in PriceInputs} :
        LET cls == IF "price" \in DOMAIN data THEN "DayAheadPrice" ELSE "SystemPrice"
        IN fn' = Call("from_elexon_response", [cls |-> cls, data |-> data],
                      from_elexon_response(cls, data))
    /\ UNCHANGED <<req, cl, fetch_logs, tables, sv, nSaves, orch, jobs>>

(***************************************************************************)
(* clients/elexon.py: daily_average and monthly_average                     *)
(***************************************************************************)

RECURSIVE SumPrices(_)
\* sum(price_values)
SumPrices(s) == IF s = <<>> THEN 0 ELSE Head(s) + SumPrices(Tail(s))

\* (n / d).quantize(Decimal("0.01")) under ROUND_HALF_EVEN, for d > 0, on
\* amounts counted in 1/10000.
QuantizeRatio(n, d) ==
    LET q == n \div (100 * d)
        r == n - q * 100 * d
    IN IF 2 * r < 100 * d THEN q * 100
       ELSE IF 2 * r > 100 * d THEN (q + 1) * 100
       ELSE IF q % 2 = 0 THEN q * 100 ELSE (q + 1) * 100

\* A variant of the day-ahead filter that keeps the zero prices.
IsQuoted(p) == p.price >= 0

\* if p.price > 0: the day-ahead entries that enter an average.
IsTraded(p) == p.price > 0

\* What both averages do once the prices are fetched: fetched is what the
\* client call gave for the chosen price_type.
Aggregate(start_date, end_date, price_type, fetched) ==
    IF price_type \notin {"system_price", "day_ahead"}
    THEN Fail("ValueError: Invalid price_type")
    ELSE IF fetched.kind = "raise" THEN fetched
    ELSE LET prices == fetched.value
             price_values == IF price_type = "system_price"
                             THEN MapSeq(prices, LAMBDA p : p.price)
                             ELSE MapSeq(SelectSeq(prices, IsTraded), LAMBDA p : p.price)
         IN IF price_values = <<>> THEN Fail("ValueError: No prices found")
            ELSE Ok([start_date |-> start_date,
                     end_date |-> end_date,
                     average_price |-> QuantizeRatio(SumPrices(price_values),
                                                     Len(price_values)),
                     min_price |-> SeqMin(price_values, LAMBDA x : x),
                     max_price |-> SeqMax(price_values, LAMBDA x : x),
                     num_periods |-> Len(price_values),
                     price_type |-> price_type])

\* ElexonClient.daily_average(settlement_date, price_type): resp is what the
\* upstream answers to the one request it makes.
daily_average(settlement_date, price_type, resp) ==
    Aggregate(settlement_date, settlement_date, price_type,
              IF price_type = "system_price" THEN get_system_prices(resp)
              ELSE get_market_index_prices(resp))

\* calendar.monthrange(year, month)[1]
DaysInMonth(year, month) ==
    IF month = 2
    THEN IF year % 4 = 0 /\ (year % 100 # 0 \/ year % 400 = 0) THEN 29 ELSE 28
    ELSE IF month \in {4, 6, 9, 11} THEN 30 ELSE 31

\* ElexonClient.monthly_average(year, month, price_type).  The dates of the
\* month are counted as days of the month, so from_date is 1 and to_date is
\* last_day.  System prices are fetched day by day (dayResp), day-ahead
\* prices in one request for from_date..to_date (resp).
monthly_average(year, month, price_type, dayResp, resp) ==
    LET last_day == DaysInMonth(year, month)
        from_date == 1
        to_date == last_day
        rng == get_system_prices_range(from_date, to_date, dayResp)
    IN [result |-> Aggregate(from_date, to_date, price_type,
                             IF price_type = "system_price" THEN rng.result
                             ELSE get_market_index_prices(resp)),
        requested |->
            IF price_type = "system_price"
            THEN [i \in 1..Len(rng.requested) |->
                     ReqEv("system_prices", rng.requested[i], rng.requested[i])]
            ELSE IF price_type = "day_ahead"
            THEN <<ReqEv("day_ahead_prices", from_date, to_date)>>
            ELSE <<>>]

\* The longest answer to a request of an average.
MaxAggLen == 2

\* Amounts in the answers: 0, 50, 50.005, 50.015, 50.02 and -30.
AggInputs == {0, 500000, 500050, 500150, 500200, 0 - 300000}

AggResponses(cls) ==
    {RaiseResp} \cup
    {DataResp(s) : s \in SeqsUpTo({PriceData(cls, 1, a, a) : a \in AggInputs}, MaxAggLen)}

PriceTypes == {"system_price", "day_ahead", "spot"}

ClsOf(price_type) == IF price_type = "system_price" THEN "SystemPrice" ELSE "DayAheadPrice"

DailyAverage ==
    /\ fn.pc = "idle"
    /\ \E price_type \in PriceTypes :
        \E resp \in AggResponses(ClsOf(price_type)) :
            fn' = Call("daily_average", [price_type |-> price_type, resp |-> resp],
                       daily_average(0, price_type, resp))
    /\ UNCHANGED <<req, cl, fetch_logs, tables, sv, nSaves, orch, jobs>>

\* The months asked for: February of a common and of a leap year, a month
\* of 30 days and one of 31.
YearMonths == {<<2023, 2>>, <<2024, 2>>, <<2024, 4>>, <<2024, 12>>}

\* For system prices the upstream's answers to the first days of the month
\* are chosen freely; it has nothing for the later days.
MonthlyAverage ==
    /\ fn.pc = "idle"
    /\ \E ym \in YearMonths :
        \/ \E choice \in [1..(MaxRangeDay + 1) -> DayChoices] :
             LET dayResp == [d \in 1..DaysInMonth(ym[1], ym[2]) |->
                               IF d \in DOMAIN choice THEN DayResponse(d, choice[d])
                               ELSE DataResp(<<>>)]
                 m == monthly_average(ym[1], ym[2], "system_price", dayResp, RaiseResp)
             IN fn' = CallWith("monthly_average",
                               [year |-> ym[1], month |-> ym[2],
                                price_type |-> "system_price", day_resp |-> dayResp],
                               m.result, m.requested)
        \/ \E price_type \in PriceTypes \ {"system_price"} :
             \E resp \in AggResponses("DayAheadPrice") :
                 LET m == monthly_average(ym[1], ym[2], price_type, <<>>, resp)
                 IN fn' = CallWith("monthly_average",
                                   [year |-> ym[1], month |-> ym[2],
                                    price_type |-> price_type, resp |-> resp],
                                   m.result, m.requested)
    /\ UNCHANGED <<req, cl, fetch_logs, tables, sv, nSaves, orch, jobs>>

(***************************************************************************)
(* clients/elexon.py, clients/carbon_intensity.py: health_check            *)
(***************************************************************************)

\* The characters of the string literal "data".
DataChars == <<"d", "a", "t", "a">>

\* A decoded JSON value: an object (its keys), an array (its elements, all
\* strings here), a string (its characters), a number or null.
JsonObject(keys) == [type |-> "object", keys |-> keys, items |-> <<>>]
JsonArray(items) == [type |-> "array", keys |-> {}, items |-> items]
JsonString(chars) == [type |-> "string", keys |-> {}, items |-> chars]
JsonNumber == [type |-> "number", keys |-> {}, items |-> <<>>]
JsonNull == [type |-> "null", keys |-> {}, items |-> <<>>]

\* What response.json() can decode a body of each class to.
Decoded(body) ==
    IF body = "json_data"
    THEN {JsonObject({"data"}), JsonObject({"data", "metadata"})}
    ELSE {JsonObject({}), JsonObject({"error"}),
          JsonArray(<<>>), JsonArray(<<"data">>),
          JsonString(<<"o", "k">>), JsonString(<<"n", "o", " ">> \o DataChars),
          JsonNumber, JsonNull}

\* "data" in response: a key of a dict, an element of a list, a substring
\* of a str; TypeError for a value that is not a container.
HasData(response) ==
    IF response.type = "object" THEN Ok("data" \in response.keys)
    ELSE IF response.type = "array"
    THEN Ok(\E i \in 1..Len(response.items) : response.items[i] = "data")
    ELSE IF response.type = "string"
    THEN Ok(\E i \in 1..Len(response.items) :
               /\ i + Len(DataChars) - 1 <= Len(response.items)
               /\ SubSeq(response.items, i, i + Len(DataChars) - 1) = DataChars)
    ELSE Fail("TypeError")

\* self.get(endpoint): _request under the retry wrapper, every attempt
\* meeting the same transport outcome.
GetOutcome(t) ==
    LET out == RequestBody(t)
    IN IF RetryIf(out) THEN Raised("RetryError", None, NoneStr) ELSE out

\* A variant of health_check without the try/except around the probe.
health_check_unguarded(client, outcome, response) ==
    IF outcome.kind = "raise" THEN Fail(outcome.exc)
    ELSE LET found == HasData(response)
         IN IF found.kind = "raise" THEN found
            ELSE Ok([returned |-> found.value, logged |-> <<>>])

\* health_check of the two clients: the value returned and the warnings
\* written.  outcome is what self.get did; response is its decoded body.
health_check(client, outcome, response) ==
    LET failed(e) == Ok([returned |-> FALSE,
                         logged |-> << <<"warning", client \o " health check failed">> >>])
    IN IF outcome.kind = "raise" THEN failed(outcome.exc)
       ELSE LET found == HasData(response)
            IN IF found.kind = "raise" THEN failed(found.value)
               ELSE Ok([returned |-> found.value, logged |-> <<>>])

HealthClients == {"Elexon", "Carbon Intensity"}

\* await client.health_check() against every outcome of the probe.
HealthCheck ==
    /\ fn.pc = "idle"
    /\ \E client \in HealthClients, t \in Transports :
         LET outcome == GetOutcome(t)
         IN \E response \in (IF outcome.kind = "return" THEN Decoded(t.body)
                             ELSE {JsonNull}) :
              fn' = Call("health_check",
                         [client |-> client, transport |-> t, response |-> response],
                         health_check(client, outcome, response))
    /\ UNCHANGED <<req, cl, fetch_logs, tables, sv, nSaves, orch, jobs>>

(***************************************************************************)
(* clients/elexon.py: get_latest_system_price                              *)
(***************************************************************************)

\* A variant of the choice among a day's prices: the first of the list.
Earliest(prices) == prices[1]

\* prices[-1]
Latest(prices) == prices[Len(prices)]

\* The log entries _request writes on one attempt, as <<level, message>>.
RequestLog(t) ==
    << <<"info", "API Request">> >>
    \o (IF t.kind = "timeout" THEN << <<"error", "Request timeout">> >>
        ELSE IF t.kind = "network" THEN << <<"error", "Network error">> >>
        ELSE << <<"info", "API Response">> >>)

\* The warnings get_system_prices writes for the entries that do not parse.
ParseWarnings(resp) ==
    LET rejected == SelectSeq(resp.data, LAMBDA item : ~SystemPriceParses(item))
    IN [i \in 1..Len(rejected) |-> <<"warning", "Failed to parse system price">>]

\* for days_back in range(0, 3): the iterations from days_back on.
\* todays[k + 1] is date.today() as read in iteration k, upstream[k] the
\* transport outcome of that iteration's request and the response it
\* amounts to.  requested lists the dates asked of get_system_prices,
\* logged the log entries written during the call.  The value returned
\* (SystemPrice | None) is a tuple holding the price, empty for None.
RECURSIVE LatestLoop(_, _, _, _, _)
LatestLoop(days_back, todays, upstream, requested, logged) ==
    IF days_back >= 3
    THEN [result |-> Ok(<<>>), requested |-> requested, logged |-> logged]
    ELSE LET check_date == todays[days_back + 1] - days_back
             prices == get_system_prices(upstream[days_back].resp)
             asked == Append(requested, check_date)
             sent == logged \o RequestLog(upstream[days_back].transport)
         IN IF prices.kind = "raise"
            \* except Exception: continue
            THEN LatestLoop(days_back + 1, todays, upstream, asked, sent)
            ELSE LET written == sent \o ParseWarnings(upstream[days_back].resp)
                 IN IF prices.value # <<>>
                    THEN [result |-> Ok(<<Latest(prices.value)>>),
                          requested |-> asked, logged |-> written]
                    ELSE LatestLoop(days_back + 1, todays, upstream, asked, written)

\* ElexonClient.get_latest_system_price()
get_latest_system_price(todays, upstream) == LatestLoop(0, todays, upstream, <<>>, <<>>)

\* What the upstream does with one of the three requests: a
\* failure of the request, or a JSON answer with entries written
\* <<day offset, period>>.
LatestChoices ==
    {[transport |-> t, data |-> <<>>] :
        t \in {[kind |-> "timeout", status |-> None, body |-> NoneStr],
               [kind |-> "response", status |-> 500, body |-> "json_nodata"],
               [kind |-> "response", status |-> 200, body |-> "not_json"],
               [kind |-> "response", status |-> 200, body |-> "json_nodata"]}}
    \cup {[transport |-> [kind |-> "response", status |-> 200, body |-> "json_data"],
           data |-> s] :
             s \in {<<>>, << <<0, 2>> >>, << <<0, 51>> >>, << <<-1, 1>> >>,
                    << <<0, 1>>, <<0, 2>> >>, << <<0, 1>>, <<-1, 2>> >>}}

\* The answer of self.get for day d under one of these choices.
LatestResponse(d, choice) ==
    IF GetOutcome(choice.transport).kind = "raise" THEN RaiseResp
    ELSE DayResponse(d, DataResp(choice.data))

\* await client.get_latest_system_price()
GetLatestSystemPrice ==
    /\ fn.pc = "idle"
    /\ \E today_0 \in TodayReads(Today) :
       \E today_1 \in TodayReads(today_0) :
       \E today_2 \in TodayReads(today_1) :
       \E choice \in [0..2 -> LatestChoices] :
         LET todays == <<today_0, today_1, today_2>>
             upstream == [k \in 0..2 |->
                            [transport |-> choice[k].transport,
                             resp |-> LatestResponse(todays[k + 1] - k, choice[k])]]
             out == get_latest_system_price(todays, upstream)
         IN fn' = Call("get_latest_system_price",
                       [todays |-> todays, upstream |-> upstream],
                       [kind |-> out.result.kind,
                        value |-> [returned |-> out.result.value,
                                   requested |-> out.requested,
                                   logged |-> out.logged]])
    /\ UNCHANGED <<req, cl, fetch_logs, tables, sv, nSaves, orch, jobs>>

(***************************************************************************)
(* scheduler.py: fetch_day_ahead_prices called on its own                  *)
(***************************************************************************)

\* The largest days_back passed to fetch_day_ahead_prices.
MaxFetchDaysBack == 7

\* await fetcher.fetch_day_ahead_prices(days_back=days_back): the two reads
\* of date.today(), the range request, the save.
FetchDayAheadPrices ==
    /\ fn.pc = "idle"
    /\ \E days_back \in 0..MaxFetchDaysBack, choice \in UpstreamChoices, o \in OrchOutcomes :
       \E today_1 \in TodayReads(Today) :
       \E today_2 \in TodayReads(today_1) :
         LET from_date == today_1 - days_back
             to_date == today_2
             r == fetch_day_ahead_prices(from_date, to_date, choice, o,
                                         fetch_logs, tables["day_ahead_prices"])
         IN /\ fn' = CallWith("fetch_day_ahead_prices",
                              [days_back |-> days_back, todays |-> <<today_1, today_2>>,
                               choice |-> choice, outcomes |-> o],
                              r.result,
                              SelectSeq(r.events, LAMBDA e : e.ev = "request"))
            /\ fetch_logs' = r.fetch_logs
            /\ tables' = [tables EXCEPT !["day_ahead_prices"] = r.table]
    /\ UNCHANGED <<req, cl, sv, nSaves, orch, jobs>>

(***************************************************************************)
(* Specifications                                                          *)
(***************************************************************************)

Init ==
    /\ req = ReqIdle
    /\ cl = ClIdle
    /\ fetch_logs = <<>>
    /\ tables = NoTables
    /\ sv = SvIdle
    /\ nSaves = 0
    /\ orch = OrchIdle
    /\ jobs = [j \in JobIds |-> JobIdle]
    /\ fn = FnIdle

\* The HTTP layer: calls of _request.
NextHttp ==
    \/ \E method \in Methods, endpoint \in Endpoints : BeginRequest(method, endpoint)
    \/ \E t \in Transports : Attempt(t)

SpecHttp == Init /\ [][NextHttp]_vars

\* The clients: by-date and range fetches.
NextClient ==
    \/ GetSystemPrices
    \/ GetMarketIndexPrices
    \/ GetByDate
    \/ GetFuelMixByDate
    \/ GetSystemPricesRange

SpecClient == Init /\ [][NextClient]_vars

\* The writer: a run of save_* calls against one database.
NextWriter ==
    \/ SaveSystemPrices
    \/ SaveDayAheadPrices
    \/ SaveCarbonIntensity
    \/ SaveFuelMix

SpecWriter == Init /\ [][NextWriter]_vars

\* The orchestrator: one fetch_all or one backfill against an empty database.
Next ==
    \/ StartFetchAll
    \/ FetchAllSystemPrices
    \/ FetchAllDayAheadPrices
    \/ FetchAllCarbonIntensity
    \/ FetchAllFuelMix
    \/ StartBackfill
    \/ BackfillSystemPrices
    \/ BackfillDayAheadPrices
    \/ BackfillCarbonIntensity
    \/ BackfillFuelMix

Spec == Init /\ [][Next]_vars

\* The scheduler: overlapping jobs of one source.
NextJobs ==
    \/ \E j \in JobIds, source \in Sources : JobFetch(j, source)
    \/ \E j \in JobIds : JobMaintenanceFetch(j)
    \/ \E j \in JobIds : JobStartLog(j)
    \/ \E j \in JobIds : JobUpsert(j)
    \/ \E j \in JobIds : JobCompleteLog(j)

SpecJobs == Init /\ [][NextJobs]_vars

\* Calls of the time utilities, the price models and the averages.
NextFn ==
    \/ SettlementPeriodToTime
    \/ GetPeriodsInDay
    \/ ConstructPrice
    \/ FromElexonResponse
    \/ DailyAverage
    \/ MonthlyAverage
    \/ HealthCheck
    \/ GetLatestSystemPrice
    \/ FetchDayAheadPrices

SpecFn == Init /\ [][NextFn]_vars

(***************************************************************************)
(* Properties                                                              *)
(***************************************************************************)

\* The natural key the storage schema gives each data table.
NaturalKey(source, row) ==
    CASE source = "system_prices" -> <<row.settlement_date, row.settlement_period>>
      [] source = "day_ahead_prices" ->
           <<row.settlement_date, row.settlement_period, row.data_provider>>
      [] source = "carbon_intensity" -> <<row.datetime>>
      [] source = "fuel_mix" -> <<row.datetime>>

\* Number of positions of the sequence s that hold x.
Count(s, x) == Cardinality({i \in 1..Len(s) : s[i] = x})

\* s and t hold the same elements the same number of times.
SameBag(s, t) ==
    /\ Len(s) = Len(t)
    /\ \A i \in 1..Len(s) : Count(s, s[i]) = Count(t, s[i])

\* C1: fetch_all attempts all four source fetches and returns a map with
\* exactly the four source keys; a source whose fetch or save raised has the
\* entry {error: message}, every other source has its {fetched, inserted,
\* updated} stats, and fetch_all itself never raises.
C1_FetchAllIsolatesSources ==
    orch.op = "fetch_all" =>
       /\ orch.outcome # "raised"
       /\ orch.pc = "done" =>
             /\ orch.outcome = "returned"
             /\ DOMAIN orch.results = Sources
             /\ DOMAIN orch.ended = Sources
             /\ \A s \in Sources :
                   /\ \E i \in 1..Len(orch.trace) :
                         orch.trace[i].ev = "request" /\ orch.trace[i].what = s
                   /\ IF orch.ended[s].kind = "raise"
                      THEN orch.results[s] = [error |-> orch.ended[s].value]
                      ELSE /\ DOMAIN orch.results[s] = {"fetched", "inserted", "updated"}
                           /\ orch.results[s] = orch.ended[s].value

\* A fetch_all in which the day-ahead source raised, the fuel-mix save
\* raised, and system prices and carbon intensity stored records.
C1_Witness ==
    /\ orch.op = "fetch_all" /\ orch.pc = "done"
    /\ orch.ended["day_ahead_prices"].kind = "raise"
    /\ orch.ended["fuel_mix"].kind = "raise"
    /\ orch.ended["fuel_mix"].value = UpsertFailed
    /\ orch.ended["system_prices"].kind = "return"
    /\ orch.results["system_prices"].fetched > 0
    /\ orch.ended["carbon_intensity"].kind = "return"
    /\ orch.results["carbon_intensity"].fetched > 0

\* C2: backfill isolates sources as fetch_all does: when a requested source
\* fails, backfill still runs every other requested source and returns a
\* map with {error: message} for the failed one and stats for the others.
C2_BackfillIsolatesSources ==
    (orch.op = "backfill" /\ orch.pc = "done") =>
       /\ orch.outcome = "returned"
       /\ DOMAIN orch.results = orch.data_types
       /\ DOMAIN orch.ended = orch.data_types
       /\ \A s \in orch.data_types :
             IF orch.ended[s].kind = "raise"
             THEN orch.results[s] = [error |-> orch.ended[s].value]
             ELSE orch.results[s] = orch.ended[s].value

\* C3: for from_date <= to_date the day-ahead block of backfill ends after
\* at most one request per day of the range; the windows requested are in
\* ascending order, disjoint, at most 7 days long each and cover exactly
\* from_date..to_date (a range of 8 days or more takes at least two); what
\* the windows returned is concatenated in order and handed to
\* save_day_ahead_prices once, after the last window.
C3_DayAheadBackfillWindows ==
    (/\ orch.op = "backfill"
     /\ "day_ahead_prices" \in DOMAIN orch.ended
     /\ orch.from_date <= orch.to_date) =>
       LET IsDayAhead(e) == e.what = "day_ahead_prices"
           IsRequest(e) == e.ev = "request"
           IsAnswer(e) == e.ev = "answer"
           IsSave(e) == e.ev = "save"
           HasRecord(e) == e.result.kind = "return" /\ e.result.value # <<>>
           evs == SelectSeq(orch.trace, IsDayAhead)
           reqs == SelectSeq(evs, IsRequest)
           got == SelectSeq(SelectSeq(evs, IsAnswer), HasRecord)
           saves == SelectSeq(evs, IsSave)
           n == Len(reqs)
       IN /\ n >= 1
          /\ n <= orch.to_date - orch.from_date + 1
          /\ reqs[1].from_date = orch.from_date
          /\ reqs[n].to_date = orch.to_date
          /\ \A i \in 1..n :
                /\ reqs[i].from_date <= reqs[i].to_date
                /\ reqs[i].to_date - reqs[i].from_date + 1 <= 7
          /\ \A i \in 1..(n - 1) : reqs[i + 1].from_date = reqs[i].to_date + 1
          /\ orch.to_date - orch.from_date + 1 >= 8 => n >= 2
          /\ Len(saves) = 1
          /\ evs[Len(evs)].ev = "save"
          /\ saves[1].records = [i \in 1..Len(got) |-> got[i].result.value[1]]

\* A backfill of day_ahead_prices over 16 days: three windows, of which the
\* second failed, and the two records of the others saved together.
C3_Witness ==
    /\ orch.op = "backfill" /\ orch.pc = "done" /\ orch.outcome = "returned"
    /\ orch.data_types = {"day_ahead_prices"}
    /\ orch.to_date - orch.from_date = 15
    /\ Len(orch.trace) = 7
    /\ orch.trace[4].ev = "answer" /\ orch.trace[4].result.kind = "raise"
    /\ orch.trace[7].ev = "save" /\ Len(orch.trace[7].records) = 2
    /\ orch.results["day_ahead_prices"].fetched = 2

\* C4: a save never leaves two rows with the same natural key in a data
\* table, and saving again the list whose upsert was just committed leaves
\* the table with the same number of rows and the same keys.
C4_UpsertIdempotent ==
    [][/\ \A s \in Sources : \A i, j \in 1..Len(tables'[s]) :
             NaturalKey(s, tables'[s][i]) = NaturalKey(s, tables'[s][j]) => i = j
       /\ (/\ sv.op # "none"
           /\ sv.upsert \in {"ok", "lost"}
           /\ sv'.op = sv.op
           /\ sv'.records = sv.records) =>
             \A s \in Sources :
                /\ Len(tables'[s]) = Len(tables[s])
                /\ \A i \in 1..Len(tables[s]) :
                      NaturalKey(s, tables'[s][i]) = NaturalKey(s, tables[s][i])]_vars

\* Two saves of the same two records, both logged as successful with two
\* records each, and two rows in the table.
C4_Witness ==
    /\ nSaves = 2
    /\ sv.op = "day_ahead_prices"
    /\ Len(sv.records) = 2
    /\ sv.result = Ok(Stats(2, 2, 0))
    /\ Len(fetch_logs) = 2
    /\ \A i \in 1..2 : fetch_logs[i].status = "success" /\ fetch_logs[i].records_fetched = 2
    /\ Len(tables["day_ahead_prices"]) = 2

\* C5: a request whose attempt fails with a timeout or network error is
\* attempted again, up to 3 attempts: the failure reaches the caller only
\* after the third failed attempt.
C5_RetriesTransportFailures ==
    /\ req.attempt_number <= MaxAttempts
    /\ (req.pc = "done" /\ req.transport.kind \in {"timeout", "network"}) =>
          req.attempt_number = MaxAttempts

\* C6 as stated: status 429 raises RateLimitError after exactly one attempt,
\* any other status >= 400 raises APIError with the status code and the raw
\* body, and a status < 400 returns the parsed JSON.
C6_StatusOutcomesAsStated ==
    (req.pc = "done" /\ req.transport.kind = "response") =>
       LET t == req.transport
       IN /\ t.status = 429 =>
                /\ req.outcome = Raised("RateLimitError", 429, t.body)
                /\ req.attempt_number = 1
          /\ (t.status >= 400 /\ t.status # 429) =>
                req.outcome = Raised("APIError", t.status, t.body)
          /\ t.status < 400 => req.outcome.kind = "return"

\* C6: status 429 raises RateLimitError (not APIError, no body returned)
\* after exactly one attempt; any other status >= 400 raises APIError with
\* the status code and the raw body; a status < 400 returns the parsed JSON
\* when the body is JSON, and otherwise the decode error of response.json()
\* leaves _request after that one attempt.
C6_StatusOutcomes ==
    (req.pc = "done" /\ req.transport.kind = "response") =>
       LET t == req.transport
       IN /\ req.attempt_number = 1
          /\ t.status = 429 =>
                /\ req.outcome.kind = "raise"
                /\ req.outcome.exc = "RateLimitError"
                /\ req.outcome.status_code = 429
                /\ req.outcome.response = t.body
          /\ (t.status >= 400 /\ t.status # 429) =>
                /\ req.outcome.kind = "raise"
                /\ req.outcome.exc = "APIError"
                /\ req.outcome.status_code = t.status
                /\ req.outcome.response = t.body
          /\ t.status < 400 =>
                IF t.body \in {"json_data", "json_nodata"}
                THEN req.outcome.kind = "return" /\ req.outcome.value = t.body
                ELSE req.outcome.kind = "raise" /\ req.outcome.exc = "JSONDecodeError"

\* A finished GET that met status 429.
C6_Witness ==
    /\ req.pc = "done"
    /\ req.method = "GET"
    /\ req.transport.kind = "response"
    /\ req.transport.status = 429
    /\ req.outcome.exc = "RateLimitError"

\* C7: get_system_prices_range requests each date of from..to once, in
\* ascending order, and returns; the result holds exactly the prices of the
\* days whose fetch did not raise, ascending by (settlement_date,
\* settlement_period); with from > to nothing is requested and the result
\* is empty.
C7_RangeSkipsFailedDays ==
    cl.op = "get_system_prices_range" =>
       LET days == cl.from_date..cl.to_date
           Parsed(d) == get_system_prices(cl.resp[d])
           good == {d \in days : ~cl.resp[d].raised}
           slots == UNION {{<<d, i>> : i \in 1..Len(Parsed(d).value)} : d \in good}
           res == cl.result.value
       IN /\ cl.result.kind = "return"
          /\ Len(cl.requested) = Cardinality(days)
          /\ \A i \in 1..Len(cl.requested) : cl.requested[i] = cl.from_date + i - 1
          /\ Len(res) = Cardinality(slots)
          /\ \A p \in slots :
                Count(res, Parsed(p[1]).value[p[2]])
                   = Cardinality({q \in slots :
                                     Parsed(q[1]).value[q[2]] = Parsed(p[1]).value[p[2]]})
          /\ \A i \in 1..(Len(res) - 1) :
                \/ res[i].settlement_date < res[i + 1].settlement_date
                \/ /\ res[i].settlement_date = res[i + 1].settlement_date
                   /\ res[i].settlement_period <= res[i + 1].settlement_period
          /\ cl.from_date > cl.to_date => (cl.requested = <<>> /\ res = <<>>)

\* A range over three days whose last day failed and whose first two days
\* answered out of order.
C7_Witness ==
    /\ cl.op = "get_system_prices_range"
    /\ cl.from_date = 0 /\ cl.to_date = 2
    /\ cl.resp[2].raised
    /\ ~cl.resp[0].raised /\ ~cl.resp[1].raised
    /\ Len(cl.resp[0].data) = 1 /\ Len(cl.resp[1].data) = 1
    /\ Len(cl.result.value) = 2
    /\ cl.result.value[1].settlement_period = 1
    /\ cl.resp[0].data[1].settlementPeriod = 2
    /\ cl.requested = <<0, 1, 2>>

\* C8: a by-date fetch whose response arrived returns; the result holds one
\* record per entry that parses (an entry with a period outside 1..50 or
\* without a required field is dropped) and is ascending by
\* (settlement_date, settlement_period) or by interval start, whatever the
\* order of the entries.
C8_ByDateDropsAndSorts ==
    (cl.op \in {"get_system_prices", "get_market_index_prices",
                "get_by_date", "get_fuel_mix_by_date"} /\ ~cl.resp[1].raised) =>
       LET priced == cl.op \in {"get_system_prices", "get_market_index_prices"}
           required ==
               CASE cl.op = "get_system_prices" ->
                      {"settlementDate", "settlementPeriod", "systemSellPrice",
                       "systemBuyPrice"}
                 [] cl.op = "get_market_index_prices" ->
                      {"settlementDate", "settlementPeriod", "price"}
                 [] OTHER -> {"from", "to"}
           Parses(e) ==
               /\ required \subseteq DOMAIN e
               /\ priced => e.settlementPeriod \in 1..50
           EntryKey(e) ==
               IF priced THEN <<e.settlementDate, e.settlementPeriod>> ELSE <<e.from>>
           RecordKey(r) ==
               IF priced THEN <<r.settlement_date, r.settlement_period>>
               ELSE <<r.datetime_from>>
           entries == SelectSeq(cl.resp[1].data, Parses)
           res == cl.result.value
       IN /\ cl.result.kind = "return"
          /\ SameBag(MapSeq(res, RecordKey), MapSeq(entries, EntryKey))
          /\ \A i \in 1..(Len(res) - 1) :
                RecordKey(res[i]) = RecordKey(res[i + 1])
                   \/ TupleLess(RecordKey(res[i]), RecordKey(res[i + 1]))

\* A system-price response of three entries, one with period 51 and the two
\* others in descending order: two records come back, in ascending order.
C8_Witness ==
    /\ cl.op = "get_system_prices"
    /\ ~cl.resp[1].raised
    /\ Len(cl.resp[1].data) = 3
    /\ \A i \in 1..3 : "settlementPeriod" \in DOMAIN cl.resp[1].data[i]
    /\ cl.resp[1].data[1].settlementPeriod = 50
    /\ cl.resp[1].data[2].settlementPeriod = 51
    /\ cl.resp[1].data[3].settlementPeriod = 1
    /\ cl.resp[1].data[1].settlementDate = cl.resp[1].data[3].settlementDate
    /\ Len(cl.result.value) = 2
    /\ cl.result.value[1].settlement_period = 1

\* C9: when a save_* call has returned or raised, every fetch-log row was
\* created 'running' and updated exactly once, to 'success' or 'error'.
C9_FetchLogUpdatedOnce ==
    \A i \in 1..Len(fetch_logs) :
       /\ fetch_logs[i].status \in {"success", "error"}
       /\ Len(fetch_logs[i].status_history) = 2
       /\ fetch_logs[i].status_history[1] = "running"

\* C10: when the upsert of a save_* call failed, the call raised the upsert
\* failure and the fetch-log row it started is 'error' with that message.
C10_UpsertFailureLoggedAndRaised ==
    (sv.op # "none" /\ sv.upsert \in {"fail", "lost"}) =>
       /\ sv.result = Fail(UpsertFailed)
       /\ fetch_logs[sv.row_id].status = "error"
       /\ fetch_logs[sv.row_id].error_message = UpsertFailed

\* C11: every fetch attempt made through the orchestrator leaves a
\* fetch-log row of its source recording its completion or its error: a
\* fetch that returned stats (zero records included) has a 'success' row, a
\* fetch whose upstream request raised has an 'error' row.
C11_EveryAttemptLogged ==
    \A s \in DOMAIN orch.ended :
       /\ orch.ended[s].kind = "return" =>
             \E i \in 1..Len(fetch_logs) :
                fetch_logs[i].fetch_type = s /\ fetch_logs[i].status = "success"
       /\ (orch.ended[s].kind = "raise" /\ orch.ended[s].value = "APIError") =>
             \E i \in 1..Len(fetch_logs) :
                fetch_logs[i].fetch_type = s /\ fetch_logs[i].status = "error"

\* What the finished jobs handed to save_<source>: pairs of a job and an
\* index into its saved list.
SavesOf(source) ==
    {js \in JobIds \X (1..4) : /\ js[2] <= Len(jobs[js[1]].saved)
                               /\ jobs[js[1]].saved[js[2]].source = source}

\* C12: when jobs whose steps interleaved (fetch jobs of one source, and
\* the maintenance backfill) have all finished, every table holds one row
\* per natural key and exactly the keys the jobs wrote to it; saves of the
\* same list to a source leave its table as a single run of that list
\* does; every save of a non-empty list created a fetch-log row of its
\* own, and that row is 'success' with that save's own counts.
C12_OverlappingJobsSafe ==
    (\A j \in JobIds : jobs[j].pc = "done") =>
       LET Saved(js) == jobs[js[1]].saved[js[2]]
           all == UNION {SavesOf(source) : source \in Sources}
           logged == {js \in all : Saved(js).records # <<>>}
       IN /\ \A source \in Sources :
                LET table == tables[source]
                    written == UNION {{NaturalKey(source, RowOf(source, Saved(js).records[i])) :
                                          i \in 1..Len(Saved(js).records)} :
                                      js \in SavesOf(source)}
                IN /\ \A i, k \in 1..Len(table) :
                         NaturalKey(source, table[i]) = NaturalKey(source, table[k]) => i = k
                   /\ {NaturalKey(source, table[i]) : i \in 1..Len(table)} = written
                   /\ \A js \in SavesOf(source) :
                         (\A other \in SavesOf(source) : Saved(other).records = Saved(js).records)
                         => table = Save(source, Saved(js).records, FALSE,
                                         CHOOSE o \in SaveOutcomesNoLog : o.upsert = "ok",
                                         <<>>, <<>>).table
          /\ Len(fetch_logs) = Cardinality(logged)
          /\ \A js \in logged :
                LET id == Saved(js).log_id
                IN /\ id \in 1..Len(fetch_logs)
                   /\ \A other \in logged : Saved(other).log_id = id => other = js
                   /\ fetch_logs[id].fetch_type = Saved(js).source
                   /\ fetch_logs[id].status = "success"
                   /\ fetch_logs[id].status_history = <<"running", "success">>
                   /\ fetch_logs[id].records_fetched = Len(Saved(js).records)
                   /\ fetch_logs[id].records_inserted = Len(Saved(js).records)
                   /\ fetch_logs[id].metadata =
                         StartMetadata(Saved(js).source, Saved(js).records)

\* The finished maintenance backfill and a finished system_prices job,
\* whose saves of system_prices overlapped: the backfill's fetch-log row
\* was inserted first, each row holds its own counts, and the table holds
\* the two keys written.
C12_Witness ==
    /\ \A j \in JobIds : jobs[j].pc = "done"
    /\ jobs[1].maintenance /\ ~jobs[2].maintenance
    /\ jobs[2].source = "system_prices"
    /\ Len(jobs[2].records) = 1
    /\ Len(jobs[1].saved) = 4
    /\ Len(jobs[1].saved[1].records) = 2
    /\ jobs[1].saved[1].log_id = 1 /\ jobs[2].log_id = 2
    /\ fetch_logs[1].records_fetched = 2 /\ fetch_logs[2].records_fetched = 1
    /\ fetch_logs[1].metadata # <<>>
    /\ Len(tables["system_prices"]) = 2

\* C13: get_periods_in_day(d) gives 48 for a date whose UK-local day lasts
\* 24 hours, 46 for the spring-forward date (23 hours) and 50 for the
\* fall-back date (25 hours).
C13_PeriodsFollowDayLength ==
    fn.pc = "get_periods_in_day" =>
        LET start == LocalMidnight(fn.arg[1])
            end == LocalMidnight(fn.arg[1] + 1)
            \* the minutes that pass between the two midnights
            elapsed == (end.wall - end.utcoffset) - (start.wall - start.utcoffset)
        IN /\ ~fn.raised
           /\ fn.result[1] = (IF elapsed = 23 * 60 THEN 46
                           ELSE IF elapsed = 25 * 60 THEN 50 ELSE 48)

\* C14: for every period p in 1..50, settlement_period_to_time(p) returns a
\* time of day and time_to_settlement_period gives p back from it.
C14_PeriodRoundTrip ==
    (fn.pc = "settlement_period_to_time" /\ fn.arg[1] \in 1..50) =>
        /\ ~fn.raised
        /\ time_to_settlement_period(fn.result[1]) = fn.arg[1]

\* C15: settlement_period_to_time(period) fails exactly when period is
\* outside 1..50, and otherwise returns the (hour, minute) with
\* hour*60 + minute = (period-1)*30.
C15_FailsExactlyOutsideRange ==
    fn.pc = "settlement_period_to_time" =>
        /\ fn.raised <=> fn.arg[1] \notin 1..50
        /\ ~fn.raised => fn.result[1].hour * 60 + fn.result[1].minute = (fn.arg[1] - 1) * 30

\* C16: get_periods_in_day gives a period count only for a midnight-to-
\* midnight duration of 23, 24 or 25 hours: on every call the duration it
\* computes is one of the three, it returns the count of that duration
\* (46, 48, 50), and so no call returns a count by default for another
\* duration.
C16_CountOnlyForKnownDuration ==
    fn.pc = "get_periods_in_day" =>
        LET computed == DatetimeSub(LocalMidnight(fn.arg[1] + 1), LocalMidnight(fn.arg[1]))
        IN /\ computed \in {23 * 60, 24 * 60, 25 * 60}
           /\ ~fn.raised
           /\ fn.result[1] = (IF computed = 23 * 60 THEN 46
                              ELSE IF computed = 24 * 60 THEN 48 ELSE 50)

\* A call for the date on which the clocks go forward has returned 48: the
\* duration computed for it is 24 hours.
C16_Witness ==
    /\ fn.pc = "get_periods_in_day"
    /\ fn.arg[1] = 1
    /\ UtcOffset(fn.arg[1]) # UtcOffset(fn.arg[1] + 1)
    /\ DatetimeSub(LocalMidnight(fn.arg[1] + 1), LocalMidnight(fn.arg[1])) = 24 * 60
    /\ ~fn.raised
    /\ fn.result[1] = 48

\* C17: every SystemPrice made by from_elexon_response has its price
\* between the smaller and the larger of its sell and buy prices.
C17_PriceBetweenSellAndBuy ==
    (fn.pc = "from_elexon_response" /\ fn.arg[1].cls = "SystemPrice" /\ ~fn.raised) =>
        LET r == fn.result[1]
            lo == Min(r.system_sell_price, r.system_buy_price)
            hi == IF lo = r.system_sell_price THEN r.system_buy_price
                  ELSE r.system_sell_price
        IN lo <= r.price /\ r.price <= hi

\* C18: SystemPrice.from_elexon_response keeps sell and buy as given and
\* sets price to their mean expressed with two decimals: a multiple of 0.01
\* within 0.005 of the mean; 100 and 110 give 105.00, and sell = buy = x
\* with x of at most two decimals gives x.
C18_PriceIsMeanToTwoDecimals ==
    (fn.pc = "from_elexon_response" /\ fn.arg[1].cls = "SystemPrice" /\ ~fn.raised) =>
        LET sell == fn.arg[1].data.systemSellPrice
            buy == fn.arg[1].data.systemBuyPrice
            r == fn.result[1]
        IN /\ r.system_sell_price = sell /\ r.system_buy_price = buy
           /\ r.price % 100 = 0
           /\ 2 * r.price - (sell + buy) \in (0 - 100)..100
           /\ (sell = 1000000 /\ buy = 1100000) => r.price = 1050000
           /\ (sell = buy /\ sell % 100 = 0) => r.price = sell

\* sell 100 and buy 110 gave 105.00.
C18_Witness ==
    /\ fn.pc = "from_elexon_response" /\ fn.arg[1].cls = "SystemPrice" /\ ~fn.raised
    /\ fn.arg[1].data.systemSellPrice = 1000000 /\ fn.arg[1].data.systemBuyPrice = 1100000
    /\ fn.result[1].price = 1050000

\* C19: a SystemPrice or DayAheadPrice, built directly or by
\* from_elexon_response, exists only with a settlement period in 1..50:
\* construction fails for any other period, and every record that was
\* built has its period in 1..50.
C19_PeriodCheckedAtConstruction ==
    fn.pc \in {"construct", "from_elexon_response"} =>
        LET period == IF fn.pc = "construct" THEN fn.arg[1].fields.settlement_period
                      ELSE fn.arg[1].data.settlementPeriod
        IN /\ period \notin 1..50 => fn.raised
           /\ ~fn.raised => fn.result[1].settlement_period \in 1..50

\* A construction with period 0 or 51 failed.
C19_Witness ==
    /\ fn.pc = "construct"
    /\ fn.arg[1].fields.settlement_period \in {0, 51}
    /\ fn.raised

\* C20: every PriceAggregate from daily_average or monthly_average has
\* min_price <= average_price <= max_price.
C20_AverageBetweenMinAndMax ==
    (fn.pc \in {"daily_average", "monthly_average"} /\ ~fn.raised) =>
        /\ fn.result[1].min_price <= fn.result[1].average_price
        /\ fn.result[1].average_price <= fn.result[1].max_price

\* What the client call behind an average gave: the entries retrieved, or
\* the error the call raised.
Fetched(call) ==
    LET a == call.arg[1]
    IN IF a.price_type = "system_price"
       THEN IF call.pc = "daily_average" THEN get_system_prices(a.resp)
            ELSE get_system_prices_range(1, DaysInMonth(a.year, a.month), a.day_resp).result
       ELSE get_market_index_prices(a.resp)

\* The prices of the entries retrieved, none if the call raised.
RetrievedPrices(call) ==
    IF Fetched(call).kind = "raise" THEN <<>>
    ELSE MapSeq(Fetched(call).value, LAMBDA p : p.price)

\* n / d rounded to two decimals, a tie going away from zero, for d > 0.
RoundHalfAway(n, d) ==
    LET a == IF n < 0 THEN 0 - n ELSE n
        r == ((2 * a + 100 * d) \div (200 * d)) * 100
    IN IF n < 0 THEN 0 - r ELSE r

AverageReturned ==
    fn.pc \in {"daily_average", "monthly_average"} /\ ~fn.raised

\* C21: the average_price of an aggregate is the mean of the included
\* prices rounded to two decimals, a mean halfway between two hundredths
\* going to the one further from zero.
C21_AverageRoundsHalfAway ==
    AverageReturned =>
        LET all == RetrievedPrices(fn)
            included == IF fn.arg[1].price_type = "system_price" THEN all
                        ELSE SelectSeq(all, LAMBDA x : x > 0)
        IN fn.result[1].average_price = RoundHalfAway(SumPrices(included), Len(included))

\* C22: an aggregate is over exactly the included entries: for day_ahead
\* every retrieved entry with a non-zero price, for system_price every
\* retrieved entry; num_periods is their count, min_price and max_price
\* their extremes, and average_price their mean to two decimals.
C22_AggregateOverIncluded ==
    AverageReturned =>
        LET all == RetrievedPrices(fn)
            included == IF fn.arg[1].price_type = "system_price" THEN all
                        ELSE SelectSeq(all, LAMBDA x : x # 0)
            n == Len(included)
            r == fn.result[1]
        IN /\ r.num_periods = n
           /\ r.min_price = SeqMin(included, LAMBDA x : x)
           /\ r.max_price = SeqMax(included, LAMBDA x : x)
           /\ r.average_price % 100 = 0
           /\ 2 * (r.average_price * n - SumPrices(included)) \in (0 - 100 * n)..(100 * n)

\* C23: daily_average and monthly_average never return an aggregate over
\* nothing: every aggregate returned has num_periods >= 1, and when the
\* fetch retrieved no entry, or for day_ahead only zero prices, the call
\* fails with the no-data error.
C23_NoAggregateOverNothing ==
    fn.pc \in {"daily_average", "monthly_average"} =>
        /\ ~fn.raised => fn.result[1].num_periods >= 1
        /\ (/\ fn.arg[1].price_type \in {"system_price", "day_ahead"}
            /\ Fetched(fn).kind = "return"
            /\ \A i \in 1..Len(RetrievedPrices(fn)) :
                   /\ fn.arg[1].price_type = "day_ahead"
                   /\ RetrievedPrices(fn)[i] = 0)
           => (fn.raised /\ fn.result[1] = "ValueError: No prices found")

\* A day-ahead average whose retrieved entries all had price 0 failed with
\* the no-data error.
C23_Witness ==
    /\ fn.pc = "daily_average" /\ fn.arg[1].price_type = "day_ahead"
    /\ Fetched(fn).kind = "return"
    /\ RetrievedPrices(fn) = <<0, 0>>
    /\ fn.raised /\ fn.result[1] = "ValueError: No prices found"

\* C24: whenever nothing is retrievable for the day or month, the upstream
\* request failing included, daily_average and monthly_average fail with
\* the no-data error, for both price types.
C24_NothingRetrievableIsNoData ==
    (/\ fn.pc \in {"daily_average", "monthly_average"}
     /\ fn.arg[1].price_type \in {"system_price", "day_ahead"}
     /\ RetrievedPrices(fn) = <<>>)
        => (fn.raised /\ fn.result[1] = "ValueError: No prices found")

\* C25 (as stated): health_check never raises, returns a boolean, returns
\* false whenever the probe request failed, and returns true only when the
\* decoded response has a "data" field.
C25_HealthyOnlyWithDataField ==
    fn.pc = "health_check" =>
        /\ ~fn.raised
        /\ fn.result[1].returned \in BOOLEAN
        /\ (RequestBody(fn.arg[1].transport).kind = "raise"
               => fn.result[1].returned = FALSE)
        /\ (fn.result[1].returned = TRUE
               => /\ fn.arg[1].response.type = "object"
                  /\ "data" \in fn.arg[1].response.keys)

\* C25 (amended): health_check never raises, returns a boolean, returns
\* false whenever the probe request failed or the body is not a container,
\* and returns true exactly when the request succeeded and the decoded body
\* is an object with a "data" key, an array with a "data" element or a
\* string with "data" inside.
C25_HealthyIffDataInResponse ==
    fn.pc = "health_check" =>
        LET t == fn.arg[1].transport
            response == fn.arg[1].response
            succeeded == /\ t.kind = "response"
                         /\ t.status < 400
                         /\ t.body # "not_json"
            inside ==
                \/ response.type = "object" /\ "data" \in response.keys
                \/ /\ response.type = "array"
                   /\ \E k \in DOMAIN response.items : response.items[k] = "data"
                \/ /\ response.type = "string"
                   /\ \E pre, post \in 0..Len(response.items) :
                        /\ pre + 4 + post = Len(response.items)
                        /\ \A k \in 1..4 : response.items[pre + k] = DataChars[k]
        IN /\ ~fn.raised
           /\ fn.result[1].returned \in BOOLEAN
           /\ (fn.result[1].returned = TRUE <=> succeeded /\ inside)

\* The probe failed with a timeout and health_check returned False, with
\* the warning written.
C25_Witness ==
    /\ fn.pc = "health_check"
    /\ fn.arg[1].transport.kind = "timeout"
    /\ ~fn.raised
    /\ fn.result[1].returned = FALSE
    /\ Len(fn.result[1].logged) = 1

\* The failures that a call caught and went on after: the probe of a
\* health check, the requests of get_latest_system_price (by iteration).
SwallowedFailures(call) ==
    IF call.pc = "health_check"
    THEN IF call.result[1].returned = FALSE
            /\ (GetOutcome(call.arg[1].transport).kind = "raise"
                \/ call.arg[1].response.type \in {"number", "null"})
         THEN {"probe"} ELSE {}
    ELSE IF call.pc = "get_latest_system_price"
    THEN {k \in 0..2 : /\ call.arg[1].upstream[k].resp.raised
                       /\ k + 1 <= Len(call.result[1].requested)}
    ELSE {}

\* C26: no operation swallows a failure silently: after a health check or
\* a get_latest_system_price call that caught a failure and went on, a
\* warning or an error was logged for a failure (the warnings for entries
\* that do not parse are about something else) or the caller got an error
\* indicator: an exception, False from the health check, None from
\* get_latest_system_price.
C26_NoFailureSwallowedSilently ==
    fn.pc \in {"health_check", "get_latest_system_price"} =>
        (SwallowedFailures(fn) # {} =>
            \/ fn.raised
            \/ \E i \in DOMAIN fn.result[1].logged :
                   /\ fn.result[1].logged[i][1] \in {"warning", "error"}
                   /\ fn.result[1].logged[i][2] # "Failed to parse system price"
            \/ fn.pc = "health_check" /\ fn.result[1].returned = FALSE
            \/ fn.pc = "get_latest_system_price" /\ fn.result[1].returned = <<>>)

\* C27: the list of day-ahead prices that backfill passes to
\* save_day_ahead_prices holds at most one record per (settlement_date,
\* settlement_period, data_provider).
C27_StitchedResultDeduplicated ==
    orch.op = "backfill" =>
        \A i \in DOMAIN orch.trace :
            (orch.trace[i].ev = "save" /\ orch.trace[i].what = "day_ahead_prices") =>
                LET records == orch.trace[i].records
                IN \A j, k \in DOMAIN records :
                       (/\ records[j].settlement_date = records[k].settlement_date
                        /\ records[j].settlement_period = records[k].settlement_period
                        /\ records[j].data_provider = records[k].data_provider)
                       => j = k

\* C28: every day-ahead market-index range request issued by
\* fetch_day_ahead_prices or by monthly_average spans at most 7 calendar
\* days (from_date and to_date both counted).
C28_DayAheadRequestsWithinWindow ==
    fn.pc \in {"fetch_day_ahead_prices", "monthly_average"} =>
        \A i \in DOMAIN fn.requests :
            fn.requests[i].what = "day_ahead_prices" =>
                fn.requests[i].to_date - fn.requests[i].from_date + 1 <= 7

\* The entries of the answer to the request of iteration k that become
\* prices: none if the request failed, else those with a settlement period
\* in 1..50.
RequestEntries(call, k) ==
    LET resp == call.arg[1].upstream[k].resp
    IN IF resp.raised THEN {}
       ELSE {resp.data[i] : i \in {j \in DOMAIN resp.data :
                                      /\ resp.data[j].settlementPeriod >= 1
                                      /\ resp.data[j].settlementPeriod <= 50}}

\* The iterations (0, 1, 2) whose request yields at least one price.
RequestsWithPrices(call) == {k \in 0..2 : RequestEntries(call, k) # {}}

\* The first iteration whose request yields a price, for a call that has one.
FirstWithPrices(call) ==
    CHOOSE k \in RequestsWithPrices(call) : \A other \in RequestsWithPrices(call) : k <= other

\* Nothing is raised, a failed request counts as an empty answer, the
\* iterations stop at the first answer with a price, and None is returned
\* exactly when no answer has a price.
LatestStopsAtFirstPrice(call) ==
    /\ ~call.raised
    /\ (call.result[1].returned = <<>>) <=> (RequestsWithPrices(call) = {})
    /\ Len(call.result[1].requested) =
          IF RequestsWithPrices(call) = {} THEN 3 ELSE FirstWithPrices(call) + 1

\* C29 (as stated): get_latest_system_price examines today, today-1 and
\* today-2 in that order (today being the date when the call starts), a
\* failed day counting as an empty one, and returns the highest-period
\* price of the first day that has a price; it returns None exactly when no
\* day has one, never raises, and a returned price has settlement_date >=
\* today-2.
C29_LatestIsHighestPeriodOfFirstDay ==
    fn.pc = "get_latest_system_price" =>
        /\ LatestStopsAtFirstPrice(fn)
        /\ \A i \in DOMAIN fn.result[1].requested :
              fn.result[1].requested[i] = fn.arg[1].todays[1] - (i - 1)
        /\ fn.result[1].returned # <<>> =>
              LET p == fn.result[1].returned[1]
                  entries == RequestEntries(fn, FirstWithPrices(fn))
              IN /\ \E e \in entries : /\ e.settlementDate = p.settlement_date
                                       /\ e.settlementPeriod = p.settlement_period
                 /\ \A e \in entries : e.settlementPeriod <= p.settlement_period
                 /\ p.settlement_date >= fn.arg[1].todays[1] - 2

\* C29 (amended): iteration k (0, 1, 2) asks for date.today() - k with
\* date.today() read in that iteration; the price returned is the one that
\* comes last by (settlement_date, settlement_period) among the prices of
\* the first answer that has one.  When every entry of that answer carries
\* the date asked for, it is the highest-period price of that date, which
\* is >= today-2 for today the date read first.  When no midnight passes
\* during the call the dates asked for are today, today-1, today-2.
C29_LatestIsLastByDateAndPeriod ==
    fn.pc = "get_latest_system_price" =>
        /\ LatestStopsAtFirstPrice(fn)
        /\ \A i \in DOMAIN fn.result[1].requested :
              fn.result[1].requested[i] = fn.arg[1].todays[i] - (i - 1)
        /\ (\A i \in 1..3 : fn.arg[1].todays[i] = fn.arg[1].todays[1]) =>
              \A i \in DOMAIN fn.result[1].requested :
                 fn.result[1].requested[i] = fn.arg[1].todays[1] - (i - 1)
        /\ fn.result[1].returned # <<>> =>
              LET p == fn.result[1].returned[1]
                  k == FirstWithPrices(fn)
                  d == fn.result[1].requested[k + 1]
                  entries == RequestEntries(fn, k)
              IN /\ \E e \in entries : /\ e.settlementDate = p.settlement_date
                                       /\ e.settlementPeriod = p.settlement_period
                 /\ \A e \in entries :
                       \/ e.settlementDate < p.settlement_date
                       \/ /\ e.settlementDate = p.settlement_date
                          /\ e.settlementPeriod <= p.settlement_period
                 /\ (\A e \in entries : e.settlementDate = d) =>
                       /\ \A e \in entries : e.settlementPeriod <= p.settlement_period
                       /\ p.settlement_date = d
                       /\ p.settlement_date >= fn.arg[1].todays[1] - 2

\* No midnight passes, today's request fails, yesterday's answer holds
\* periods 1 and 2, and the price of period 2 of yesterday is returned.
C29_Witness ==
    /\ fn.pc = "get_latest_system_price"
    /\ fn.arg[1].todays = <<Today, Today, Today>>
    /\ fn.arg[1].upstream[0].resp.raised
    /\ Len(fn.arg[1].upstream[1].resp.data) = 2
    /\ fn.result[1].requested = <<Today, Today - 1>>
    /\ fn.result[1].returned # <<>>
    /\ fn.result[1].returned[1].settlement_date = Today - 1
    /\ fn.result[1].returned[1].settlement_period = 2

\* C30: the fetch log agrees with the data tables: after a save_* call
\* that started a fetch-log row, a row with status 'error' means that the
\* call's upsert committed no rows, and a committed upsert means that the
\* row's status is 'success'.
C30_FetchLogAgreesWithTables ==
    (sv.op # "none" /\ sv.row_id # None) =>
        LET row == fetch_logs[sv.row_id]
            committed == sv.upsert \in {"ok", "lost"}
        IN /\ row.status = "error" => ~committed
           /\ committed => row.status = "success"

====
